---- MODULE Spec2Model ----
(***************************************************************************)
(* A model of BrsFileValidator (src/bscPlugin/validation/                  *)
(* BrsFileValidator.ts): the single-file validation pass process(), which  *)
(* walks the AST of one file, then flags top-level statements, then        *)
(* validates the position of library/import statements.                    *)
(*                                                                         *)
(* The AST is an arena: nodes[i] is a node record, nodes[i].parent the     *)
(* index of its parent (0 for the root), and the indices are in the        *)
(* pre-order of the walk.  A text is a sequence of one-character strings,  *)
(* so that toLowerCase() is computed and not assumed.  An optional field   *)
(* is << >> (undefined) or <<v>>.                                          *)
(***************************************************************************)
EXTENDS Integers, Sequences, FiniteSets, TLC

VARIABLES
    nodes,          \* the parsed tree of event.file (file.ast / file.parser.ast)
    hasTypedef,     \* event.file.hasTypedef
    diagnostics,    \* event.file.diagnostics, in insertion order
    symbolTables,   \* node index -> the symbols of that node's symbol table
    enumValueKinds, \* node index -> the enumValueKind validateEnumDeclaration
                    \* inferred for that enum statement (undefined before)
    pc,             \* the phase of process(): walk, flagTopLevelStatements, ...
    idx,            \* the index of the next node the walk visits
    run,            \* which run of process() on this tree this is (1 or 2)
    firstRun        \* the diagnostics and symbol tables the first run ended
                    \* with (undefined during the first run)

vars ==
    <<nodes, hasTypedef, diagnostics, symbolTables, enumValueKinds, pc, idx, run, firstRun>>

\* ------------------------------------------------------------------ bounds
\* the longest chain of nested constructs above a continue statement
MaxSegs == 3
\* the longest chain of nested constructs above a return statement
MaxReturnSegs == 2
\* the most members of an enum
MaxMembers == 2
\* the get expressions in the object of a dotted or indexed set
MaxGets == 2
\* the constructs around a declaration
MaxDeclSegs == 2
\* the statements of a file of top-level statements and namespaces
MaxStatements == 3
\* the parameters of a function beyond CallExpression.MaximumArguments
MaxExtraParameters == 2
\* the arguments of a callfunc beyond the five it may have
MaxExtraArgs == 2

\* ------------------------------------------------------------ basic values
Undefined == << >>
Some(x) == <<x>>
IsDefined(o) == o # << >>
Val(o) == o[1]

\* String.prototype.toLowerCase on the letters the model uses
UpperChars == <<"A", "B", "C", "E", "F", "H", "I", "L", "M", "N", "O", "R", "S", "W">>
LowerChars == <<"a", "b", "c", "e", "f", "h", "i", "l", "m", "n", "o", "r", "s", "w">>
toLowerCaseChar(c) ==
    IF \E i \in DOMAIN UpperChars : UpperChars[i] = c
    THEN LowerChars[CHOOSE i \in DOMAIN UpperChars : UpperChars[i] = c]
    ELSE c
toLowerCase(s) == [i \in DOMAIN s |-> toLowerCaseChar(s[i])]

\* TokenKind members (the enum's string values)
TokenKind_While == <<"W", "h", "i", "l", "e">>
TokenKind_For == <<"F", "o", "r">>
TokenKind_ForEach == <<"F", "o", "r", "E", "a", "c", "h">>

\* a source range: the node it belongs to, the enum member (0: none) and the
\* part of the node (its own range, or the range of one of its tokens)
Range(n, m, part) == [node |-> n, member |-> m, part |-> part]
NodeRange(n) == Range(n, 0, "range")

\* a diagnostic: a DiagnosticMessages template (its name and its argument)
\* plus a range
Diagnostic(message, arg, range) == [message |-> message, arg |-> arg, range |-> range]

\* ------------------------------------------------------------------- nodes
\* a node with every optional field absent
Node(kind, parent) ==
    [kind |-> kind, parent |-> parent,
     name |-> Undefined,            \* name / item token text
     loopType |-> Undefined,        \* ContinueStatement.tokens.loopType text
     value |-> FALSE,               \* ReturnStatement.value is present
     functionType |-> Undefined,    \* FunctionExpression.functionType
     returnTypeToken |-> Undefined, \* FunctionExpression.returnTypeToken kind
     parameters |-> << >>,          \* FunctionExpression.parameters (node indices)
     args |-> << >>,                \* CallfuncExpression.args (node indices)
     dot |-> Undefined,             \* the kind of the dot token of a dotted get/set
     openingSquare |-> Undefined,   \* the kind of the `[` token of an indexed get/set
     questionDotToken |-> Undefined, \* IndexedGetExpression.questionDotToken kind
     members |-> << >>]             \* EnumStatement.getMembers()

isWhileStatement(n) == n # 0 /\ nodes[n].kind = "WhileStatement"
isForStatement(n) == n # 0 /\ nodes[n].kind = "ForStatement"
isForEachStatement(n) == n # 0 /\ nodes[n].kind = "ForEachStatement"
isFunctionExpression(n) == n # 0 /\ nodes[n].kind = "FunctionExpression"
isNamespaceStatement(n) == n # 0 /\ nodes[n].kind = "NamespaceStatement"
isBody(n) == n # 0 /\ nodes[n].kind = "Body"
isDottedSetStatement(n) == n # 0 /\ nodes[n].kind = "DottedSetStatement"
isDottedGetExpression(n) == n # 0 /\ nodes[n].kind = "DottedGetExpression"
isIndexedSetStatement(n) == n # 0 /\ nodes[n].kind = "IndexedSetStatement"
isIndexedGetExpression(n) == n # 0 /\ nodes[n].kind = "IndexedGetExpression"

\* node.parent, undefined (0) above the root
Parent(n) == IF n = 0 THEN 0 ELSE nodes[n].parent

\* ----------------------------------------------------------- symbol tables
DynamicType == [kind |-> "dynamic", name |-> << >>]
\* new InterfaceType(new Map())
InterfaceType == [kind |-> "interface", name |-> << >>]

\* the nodes that carry a symbol table of their own
HasSymbolTable(n) ==
    \/ nodes[n].kind \in {"Body", "FunctionExpression", "NamespaceStatement"}
    \/ nodes[n].kind = "Block" /\ isFunctionExpression(Parent(n))

\* AstNode.getSymbolTable(): the table of the nearest node, from n upward,
\* that has one (0: undefined)
RECURSIVE getSymbolTable(_)
getSymbolTable(n) ==
    IF n = 0 THEN 0
    ELSE IF HasSymbolTable(n) THEN n
    ELSE getSymbolTable(Parent(n))

\* SymbolTable.hasSymbol(name) on the table itself, names compared
\* case-insensitively
hasSymbol(table, name) ==
    \E e \in table : toLowerCase(e.name) = toLowerCase(name)

\* SymbolTable.addSymbol(name, range, type): a later call for the same name
\* overwrites
addSymbol(table, name, range, type) ==
    {e \in table : toLowerCase(e.name) # toLowerCase(name)}
        \cup {[name |-> name, range |-> range, type |-> type]}

\* symbolTables after <scope>.addSymbol(...), where scope is a node index
AddTo(tables, scope, name, range, type) ==
    [tables EXCEPT ![scope] = addSymbol(@, name, range, type)]

\* ---------------------------------------------------- continue statements
\* validateLoopTypeMatch (the closure of validateContinueStatement): the
\* diagnostics it adds for the continue statement when the loop found has
\* keyword kind expectedLoopType
\* (faulty variant: the texts are compared as written, without toLowerCase)
validateLoopTypeMatchCaseSensitive(statement, expectedLoopType) ==
    LET expected == IF expectedLoopType = TokenKind_ForEach
                    THEN TokenKind_For ELSE expectedLoopType
        actualLoopType == nodes[statement].loopType
    IN  IF IsDefined(actualLoopType) /\ expected # Val(actualLoopType)
        THEN <<Diagnostic("expectedToken", expected, Range(statement, 0, "loopType"))>>
        ELSE << >>

validateLoopTypeMatch(statement, expectedLoopType) ==
    LET \* coerce ForEach to For
        expected == IF expectedLoopType = TokenKind_ForEach
                    THEN TokenKind_For ELSE expectedLoopType
        actualLoopType == nodes[statement].loopType
    IN  IF IsDefined(actualLoopType)
           /\ toLowerCase(expected) # toLowerCase(Val(actualLoopType))
        THEN <<Diagnostic("expectedToken", expected, Range(statement, 0, "loopType"))>>
        ELSE << >>

\* the matcher validateContinueStatement hands to findAncestor: its result
\* (true: stop here) and the diagnostics it adds on the way
\* (faulty variant: the ForStatement branch lacks its `return true`)
ContinueMatcherSkipsFor(statement, node) ==
    IF isWhileStatement(node)
    THEN [result |-> TRUE, diags |-> validateLoopTypeMatch(statement, TokenKind_While)]
    ELSE IF isForStatement(node)
    THEN [result |-> FALSE, diags |-> validateLoopTypeMatch(statement, TokenKind_For)]
    ELSE IF isForEachStatement(node)
    THEN [result |-> TRUE, diags |-> validateLoopTypeMatch(statement, TokenKind_ForEach)]
    ELSE [result |-> FALSE, diags |-> << >>]

ContinueMatcher(statement, node) ==
    IF isWhileStatement(node)
    THEN [result |-> TRUE, diags |-> validateLoopTypeMatch(statement, TokenKind_While)]
    ELSE IF isForStatement(node)
    THEN [result |-> TRUE, diags |-> validateLoopTypeMatch(statement, TokenKind_For)]
    ELSE IF isForEachStatement(node)
    THEN [result |-> TRUE, diags |-> validateLoopTypeMatch(statement, TokenKind_ForEach)]
    ELSE [result |-> FALSE, diags |-> << >>]

\* statement.findAncestor(matcher), started at `node`: the matcher is called
\* on each ancestor in turn, innermost first, until it returns true
RECURSIVE ContinueFindAncestor(_, _)
ContinueFindAncestor(statement, node) ==
    IF node = 0 THEN [parent |-> 0, diags |-> << >>]
    ELSE LET m == ContinueMatcher(statement, node) IN
         IF m.result THEN [parent |-> node, diags |-> m.diags]
         ELSE LET r == ContinueFindAncestor(statement, Parent(node))
              IN  [parent |-> r.parent, diags |-> m.diags \o r.diags]

\* (faulty variant: a continue statement outside of a loop is not flagged)
validateContinueStatementLoopOnly(statement) ==
    ContinueFindAncestor(statement, Parent(statement)).diags

\* a function literal is on the way up from node to its ancestor loop
RECURSIVE FunctionBetween(_, _)
FunctionBetween(node, loop) ==
    IF node = 0 \/ node = loop THEN FALSE
    ELSE nodes[node].kind = "FunctionExpression" \/ FunctionBetween(Parent(node), loop)

\* (faulty variant: the search for the loop ends at the function literal the
\* continue statement is in)
validateContinueStatementWithinFunction(statement) ==
    LET found == ContinueFindAncestor(statement, Parent(statement))
    IN  IF found.parent # 0 /\ ~FunctionBetween(Parent(statement), found.parent)
        THEN found.diags
        ELSE <<Diagnostic("illegalContinueStatement", << >>, NodeRange(statement))>>

\* validateContinueStatement: the diagnostics it adds
validateContinueStatement(statement) ==
    LET found == ContinueFindAncestor(statement, Parent(statement))
    IN  found.diags \o
        \* flag continue statements found outside of a loop
        (IF found.parent = 0
         THEN <<Diagnostic("illegalContinueStatement", << >>, NodeRange(statement))>>
         ELSE << >>)

\* ------------------------------------------ optional chaining in a var set
\* the condition of validateNoOptionalChainingInVarSet on one node
\* (faulty variant: the statement's own separator is not looked at)
IsOptionalChainingGetsOnly(node) ==
    \/ (isDottedGetExpression(node) /\ nodes[node].dot = Some("QuestionDot"))
    \/ (isIndexedGetExpression(node)
        /\ (nodes[node].questionDotToken = Some("QuestionDot")
            \/ nodes[node].openingSquare = Some("QuestionLeftSquare")))

IsOptionalChaining(node) ==
    \/ \* a?.b = true or a.b?.c = true
       ((isDottedSetStatement(node) \/ isDottedGetExpression(node))
        /\ nodes[node].dot = Some("QuestionDot"))
    \/ \* a.b?[2] = true
       (isIndexedGetExpression(node)
        /\ (nodes[node].questionDotToken = Some("QuestionDot")
            \/ nodes[node].openingSquare = Some("QuestionLeftSquare")))
    \/ \* a?[1] = true
       (isIndexedSetStatement(node) /\ nodes[node].openingSquare = Some("QuestionLeftSquare"))

\* the range of the diagnostic: the entire left-hand side if possible
OptionalChainingRange(parent, node) ==
    IF isDottedSetStatement(parent) THEN Range(parent, 0, "obj..name")
    ELSE IF isIndexedSetStatement(parent) THEN Range(parent, 0, "obj..closingSquare")
    ELSE NodeRange(node)

\* (faulty variant: the loop lacks its break at the statement, and goes on
\* through the worklist and up the tree)
RECURSIVE OptionalChainingLoopNoBreak(_, _)
OptionalChainingLoopNoBreak(parent, worklist) ==
    IF worklist = << >> THEN [diags |-> << >>, threw |-> FALSE]
    ELSE LET node == Head(worklist)
             found == IF node # 0 /\ IsOptionalChaining(node)
                      THEN <<Diagnostic("noOptionalChainingInLeftHandSideOfAssignment", << >>,
                                        OptionalChainingRange(parent, node))>>
                      ELSE << >>
         IN  IF node = 0 THEN [diags |-> found, threw |-> TRUE]
             ELSE LET rest == OptionalChainingLoopNoBreak(parent,
                                  Tail(worklist) \o <<Parent(node)>>)
                  IN  [diags |-> found \o rest.diags, threw |-> rest.threw]

\* the worklist loop of validateNoOptionalChainingInVarSet: the diagnostics it
\* adds, and whether it threw (node.parent of an undefined node)
RECURSIVE OptionalChainingLoop(_, _)
OptionalChainingLoop(parent, worklist) ==
    IF worklist = << >> THEN [diags |-> << >>, threw |-> FALSE]
    ELSE LET node == Head(worklist)
             found == IF node # 0 /\ IsOptionalChaining(node)
                      THEN <<Diagnostic("noOptionalChainingInLeftHandSideOfAssignment", << >>,
                                        OptionalChainingRange(parent, node))>>
                      ELSE << >>
         IN  IF node = parent THEN [diags |-> found, threw |-> FALSE]
             ELSE IF node = 0 THEN [diags |-> found, threw |-> TRUE]
             ELSE LET rest == OptionalChainingLoop(parent, Tail(worklist) \o <<Parent(node)>>)
                  IN  [diags |-> found \o rest.diags, threw |-> rest.threw]

\* node.obj: the object expression of a dotted/indexed get or set (0: none)
Obj(n) ==
    LET objs == {c \in 1..Len(nodes) : nodes[c].parent = n}
    IN  IF objs = {} THEN 0 ELSE CHOOSE c \in objs : \A d \in objs : c <= d

\* validateNoOptionalChainingInVarSet(node, [node.obj])
validateNoOptionalChainingInVarSet(parent) ==
    OptionalChainingLoop(parent, <<Obj(parent), parent>>)

\* ------------------------------------------------------ return statements
\* node.findAncestor(isFunctionExpression) (0: undefined)
RECURSIVE findAncestorFunctionExpression(_)
findAncestorFunctionExpression(n) ==
    IF Parent(n) = 0 THEN 0
    ELSE IF isFunctionExpression(Parent(n)) THEN Parent(n)
    ELSE findAncestorFunctionExpression(Parent(n))

\* func?.functionType?.text
FunctionTypeText(func) ==
    IF func # 0 /\ IsDefined(nodes[func].functionType)
    THEN Val(nodes[func].functionType).text ELSE << >>

\* the first operand of the condition: func?.returnTypeToken?.kind === Void
ReturnTypeIsVoid(func) ==
    func # 0 /\ nodes[func].returnTypeToken = Some("Void")

\* the second operand: func.functionType?.kind === Sub && !func.returnTypeToken
\* (evaluated only when the first is false; func is dereferenced unguarded)
\* (faulty variant: the `!func.returnTypeToken` operand is missing)
SubWithoutReturnTypeAnyType(func) ==
    /\ IsDefined(nodes[func].functionType)
    /\ Val(nodes[func].functionType).kind = "Sub"

SubWithoutReturnType(func) ==
    /\ IsDefined(nodes[func].functionType)
    /\ Val(nodes[func].functionType).kind = "Sub"
    /\ ~IsDefined(nodes[func].returnTypeToken)

\* the ReturnStatement visitor throws a TypeError when it reads
\* func.functionType of an undefined func
ReturnVisitorThrows(node) ==
    LET func == findAncestorFunctionExpression(node)
    IN  ~ReturnTypeIsVoid(func) /\ func = 0

\* the diagnostics the ReturnStatement visitor adds when it does not throw
ReturnVisitorDiagnostics(node) ==
    LET func == findAncestorFunctionExpression(node)
    IN  IF ReturnTypeIsVoid(func) \/ SubWithoutReturnType(func)
        THEN \* there may not be a return value
             IF nodes[node].value
             THEN <<Diagnostic("voidFunctionMayNotReturnValue", FunctionTypeText(func),
                               NodeRange(node))>>
             ELSE << >>
        ELSE \* there MUST be a return value
             IF ~nodes[node].value
             THEN <<Diagnostic("nonVoidFunctionMustReturnValue", FunctionTypeText(func),
                               NodeRange(node))>>
             ELSE << >>

\* ------------------------------------------------------------ declarations
\* validateDeclarationLocations: the diagnostics it adds; the range is the
\* bounding range of the keyword and the name
\* (faulty variant: the namespace is looked for one level too low)
validateDeclarationLocationsParentOnly(statement, keyword) ==
    IF \/ isNamespaceStatement(Parent(statement))
       \/ (isBody(Parent(statement)) /\ Parent(Parent(statement)) = 0)
    THEN << >>
    ELSE <<Diagnostic("keywordMustBeDeclaredAtNamespaceLevel", keyword,
                      Range(statement, 0, "keyword..name"))>>

validateDeclarationLocations(statement, keyword) ==
    IF \/ isNamespaceStatement(Parent(Parent(statement)))
       \/ (isBody(Parent(statement)) /\ Parent(Parent(statement)) = 0)
    THEN << >>
    ELSE <<Diagnostic("keywordMustBeDeclaredAtNamespaceLevel", keyword,
                      Range(statement, 0, "keyword..name"))>>

\* CallExpression.MaximumArguments
MaximumArguments == 32

\* the `for` loop of validateFunctionParameterCount from index i (0-based):
\* the diagnostics it adds, and whether it threw (name.range of a parameter
\* without a name)
RECURSIVE ParameterCountLoop(_, _)
ParameterCountLoop(func, i) ==
    LET parameters == nodes[func].parameters
    IN  IF i >= Len(parameters) THEN [diags |-> << >>, threw |-> FALSE]
        ELSE IF ~IsDefined(nodes[parameters[i + 1]].name)
        THEN [diags |-> << >>, threw |-> TRUE]
        ELSE LET rest == ParameterCountLoop(func, i + 1)
             IN  [diags |-> <<Diagnostic("tooManyCallableParameters",
                                         <<ToString(Len(parameters)),
                                           ToString(MaximumArguments)>>,
                                         Range(parameters[i + 1], 0, "name"))>>
                                \o rest.diags,
                  threw |-> rest.threw]

\* (faulty variant: the loop starts one parameter too late)
validateFunctionParameterCountOffByOne(func) ==
    IF Len(nodes[func].parameters) > MaximumArguments
    THEN ParameterCountLoop(func, MaximumArguments + 1)
    ELSE [diags |-> << >>, threw |-> FALSE]

\* validateFunctionParameterCount: flag every parameter over the limit
validateFunctionParameterCount(func) ==
    IF Len(nodes[func].parameters) > MaximumArguments
    THEN ParameterCountLoop(func, MaximumArguments)
    ELSE [diags |-> << >>, threw |-> FALSE]

\* the most arguments a callfunc may have
MaxCallfuncArgs == 5

\* (faulty variant: the fifth argument is already one too many)
validateCallfuncArgsAtLimit(node) ==
    IF Len(nodes[node].args) >= MaxCallfuncArgs
    THEN IF ~IsDefined(nodes[node].name)
         THEN [diags |-> << >>, threw |-> TRUE]
         ELSE [diags |-> <<Diagnostic("callfuncHasToManyArgs",
                                      <<ToString(Len(nodes[node].args))>>,
                                      Range(node, 0, "methodName"))>>,
               threw |-> FALSE]
    ELSE [diags |-> << >>, threw |-> FALSE]

\* the body of the CallfuncExpression callback: the diagnostics it adds, and
\* whether it threw (methodName.range of a callfunc without a method name;
\* the method name is the node's `name`)
validateCallfuncArgs(node) ==
    IF Len(nodes[node].args) > MaxCallfuncArgs
    THEN IF ~IsDefined(nodes[node].name)
         THEN [diags |-> << >>, threw |-> TRUE]
         ELSE [diags |-> <<Diagnostic("callfuncHasToManyArgs",
                                      <<ToString(Len(nodes[node].args))>>,
                                      Range(node, 0, "methodName"))>>,
               threw |-> FALSE]
    ELSE [diags |-> << >>, threw |-> FALSE]

\* node.findAncestor(isNamespaceStatement) (0: undefined)
RECURSIVE findAncestorNamespace(_)
findAncestorNamespace(n) ==
    IF Parent(n) = 0 THEN 0
    ELSE IF isNamespaceStatement(Parent(n)) THEN Parent(n)
    ELSE findAncestorNamespace(Parent(n))

\* '.' replaced by '_'
DotsToUnderscores(s) == [i \in DOMAIN s |-> IF s[i] = "." THEN "_" ELSE s[i]]

\* NamespaceStatement.getName(ParseMode.BrightScript)
RECURSIVE NamespaceName(_)
NamespaceName(ns) ==
    LET own == DotsToUnderscores(Val(nodes[ns].name))
        outer == findAncestorNamespace(ns)
    IN  IF outer = 0 THEN own ELSE NamespaceName(outer) \o <<"_">> \o own

\* FunctionStatement.getName(ParseMode.BrightScript) of a namespaced function
getName(node) ==
    NamespaceName(findAncestorNamespace(node)) \o <<"_">> \o Val(nodes[node].name)

\* name.split('.')[0]
RECURSIVE FirstSegment(_)
FirstSegment(s) ==
    IF s = << >> \/ Head(s) = "." THEN << >> ELSE <<Head(s)>> \o FirstSegment(Tail(s))

\* ------------------------------------------------------------------- enums
\* expressions an enum member's value can be
LiteralExpression(kind) ==
    [type |-> "LiteralExpression", token |-> Some(kind), right |-> Undefined]
UnaryExpression(right) ==
    [type |-> "UnaryExpression", token |-> Undefined, right |-> Some(right)]
VariableExpression ==
    [type |-> "VariableExpression", token |-> Undefined, right |-> Undefined]
SourceLiteralExpression ==
    [type |-> "SourceLiteralExpression", token |-> Some("SourceLineNumLiteral"),
     right |-> Undefined]

isUnaryExpression(e) == IsDefined(e) /\ Val(e).type = "UnaryExpression"
isLiteralExpression(e) == IsDefined(e) /\ Val(e).type = "LiteralExpression"

\* the string value of a TokenKind member
KindText(kind) ==
    CASE kind = "IntegerLiteral" ->
            <<"I", "n", "t", "e", "g", "e", "r", "L", "i", "t", "e", "r", "a", "l">>
      [] kind = "FloatLiteral" ->
            <<"F", "l", "o", "a", "t", "L", "i", "t", "e", "r", "a", "l">>
      [] kind = "StringLiteral" ->
            <<"S", "t", "r", "i", "n", "g", "L", "i", "t", "e", "r", "a", "l">>
      [] kind = "SourceLineNumLiteral" ->
            <<"S", "o", "u", "r", "c", "e", "L", "i", "n", "e", "N", "u", "m",
              "L", "i", "t", "e", "r", "a", "l">>

\* s.replace(/literal$/i, '')
StripLiteralSuffix(s) ==
    LET n == Len(s)
    IN  IF n >= 7 /\ toLowerCase(SubSeq(s, n - 6, n)) = <<"l", "i", "t", "e", "r", "a", "l">>
        THEN SubSeq(s, 1, n - 7) ELSE s

\* enumValueKind.replace(/literal$/i, '').toLowerCase()
EnumTypeName(kind) == toLowerCase(StripLiteralSuffix(KindText(kind)))

\* x?.token?.kind of an optional expression x
TokenKindOf(e) == IF IsDefined(e) THEN Val(e).token ELSE Undefined

\* validateEnumDeclaration, the line that infers the data type of the enum:
\* (members.find(x => x.value)?.value)?.token?.kind ?? IntegerLiteral
RECURSIVE FirstValue(_)
FirstValue(members) ==
    IF members = << >> THEN Undefined
    ELSE IF IsDefined(Head(members).value) THEN Head(members).value
    ELSE FirstValue(Tail(members))

EnumValueKind(members) ==
    LET kind == TokenKindOf(FirstValue(members))
    IN  IF IsDefined(kind) THEN Val(kind) ELSE "IntegerLiteral"

\* the value of member j unwrapped as validateEnumValueTypes unwraps it
MemberValue(member) ==
    IF isUnaryExpression(member.value) THEN Val(member.value).right ELSE member.value
MemberValueKind(member) == TokenKindOf(MemberValue(member))

\* (memberValue ?? member)?.range
MemberValueRange(stmt, j) ==
    LET member == nodes[stmt].members[j]
    IN  IF IsDefined(MemberValue(member))
        THEN Range(stmt, j, IF isUnaryExpression(member.value) THEN "value.right" ELSE "value")
        ELSE Range(stmt, j, "range")

\* validateEnumValueTypes, its first statement: the integer / non-literal check
\* (faulty variant: the `value is not a literal` operand is missing)
EnumIntegerCheckLiteralOnly(stmt, j, enumValueKind) ==
    LET member == nodes[stmt].members[j]
        memberValueKind == MemberValueKind(member)
    IN  IF (enumValueKind = "IntegerLiteral" /\ IsDefined(memberValueKind)
               /\ Val(memberValueKind) # enumValueKind)
        THEN <<Diagnostic("enumValueMustBeType", EnumTypeName(enumValueKind),
                          MemberValueRange(stmt, j))>>
        ELSE << >>

EnumIntegerCheck(stmt, j, enumValueKind) ==
    LET member == nodes[stmt].members[j]
        memberValueKind == MemberValueKind(member)
        memberValue == MemberValue(member)
    IN  IF \/ \* is integer enum, has value, that value type is not integer
              (enumValueKind = "IntegerLiteral" /\ IsDefined(memberValueKind)
               /\ Val(memberValueKind) # enumValueKind)
           \/ \* has value, that value is not a literal
              (IsDefined(memberValue) /\ ~isLiteralExpression(memberValue))
        THEN <<Diagnostic("enumValueMustBeType", EnumTypeName(enumValueKind),
                          MemberValueRange(stmt, j))>>
        ELSE << >>

\* validateEnumValueTypes, its second statement: the non-integer enum
EnumNonIntegerCheck(stmt, j, enumValueKind) ==
    LET member == nodes[stmt].members[j]
        memberValueKind == MemberValueKind(member)
    IN  IF enumValueKind # "IntegerLiteral"
        THEN IF IsDefined(memberValueKind)
             THEN \* member value is same as enum
                  IF Val(memberValueKind) # enumValueKind
                  THEN <<Diagnostic("enumValueMustBeType", EnumTypeName(enumValueKind),
                                    MemberValueRange(stmt, j))>>
                  ELSE << >>
             ELSE \* default value missing
                  <<Diagnostic("enumValueIsRequired", EnumTypeName(enumValueKind),
                               MemberValueRange(stmt, j))>>
        ELSE << >>

\* validateEnumValueTypes: the diagnostics it adds for member j
validateEnumValueTypes(stmt, j, enumValueKind) ==
    EnumIntegerCheck(stmt, j, enumValueKind) \o EnumNonIntegerCheck(stmt, j, enumValueKind)

\* (faulty variant: the name is not lower-cased)
MemberNameExact(member) == member.name

\* member.name?.toLowerCase()
MemberNameLower(member) ==
    IF IsDefined(member.name) THEN Some(toLowerCase(Val(member.name))) ELSE Undefined

\* member.name, for a message
MemberNameText(member) == IF IsDefined(member.name) THEN Val(member.name) ELSE << >>

\* (faulty variant: a duplicate member is flagged and then skipped)
RECURSIVE EnumMembersLoopSkipsDuplicates(_, _, _, _)
EnumMembersLoopSkipsDuplicates(stmt, j, memberNames, enumValueKind) ==
    IF j > Len(nodes[stmt].members) THEN << >>
    ELSE LET member == nodes[stmt].members[j]
             memberNameLower == MemberNameLower(member)
         IN  IF memberNameLower \in memberNames
             THEN <<Diagnostic("duplicateIdentifier", MemberNameText(member),
                               Range(stmt, j, "range"))>>
                  \o EnumMembersLoopSkipsDuplicates(stmt, j + 1, memberNames, enumValueKind)
             ELSE validateEnumValueTypes(stmt, j, enumValueKind)
                  \o EnumMembersLoopSkipsDuplicates(stmt, j + 1,
                                                    memberNames \cup {memberNameLower},
                                                    enumValueKind)

\* the loop of validateEnumDeclaration from member j on, memberNames being
\* the names seen so far: the diagnostics it adds
RECURSIVE EnumMembersLoop(_, _, _, _)
EnumMembersLoop(stmt, j, memberNames, enumValueKind) ==
    IF j > Len(nodes[stmt].members) THEN << >>
    ELSE LET member == nodes[stmt].members[j]
             memberNameLower == MemberNameLower(member)
             duplicate == memberNameLower \in memberNames
         IN  \* flag duplicate member names
             (IF duplicate
              THEN <<Diagnostic("duplicateIdentifier", MemberNameText(member),
                                Range(stmt, j, "range"))>>
              ELSE << >>)
             \* Enforce all member values are the same type
             \o validateEnumValueTypes(stmt, j, enumValueKind)
             \o EnumMembersLoop(stmt, j + 1,
                                IF duplicate THEN memberNames
                                ELSE memberNames \cup {memberNameLower},
                                enumValueKind)

\* validateEnumDeclaration: the diagnostics it adds
validateEnumDeclaration(stmt) ==
    EnumMembersLoop(stmt, 1, {}, EnumValueKind(nodes[stmt].members))

\* --------------------------------------------------- top-level statements
\* the children of node b, in source order
Children(b) ==
    LET IsChild(i) == nodes[i].parent = b
    IN  SelectSeq([i \in 1..Len(nodes) |-> i], IsChild)

\* file.ast.statements
RootStatements == Children(1)

\* statement.body.statements of a namespace statement
NamespaceBodyStatements(ns) ==
    LET bodies == Children(ns)
    IN  IF bodies = << >> THEN << >> ELSE Children(bodies[1])

AllowedAtTopLevel ==
    {"FunctionStatement", "ClassStatement", "EnumStatement", "InterfaceStatement",
     "CommentStatement", "LibraryStatement", "ImportStatement", "ConstStatement",
     "TypecastStatement", "AliasStatement"}

\* (faulty variant: the statements of a namespace body are not pushed)
RECURSIVE FlagTopLevelLoopRootOnly(_)
FlagTopLevelLoopRootOnly(statements) ==
    IF statements = << >> THEN << >>
    ELSE LET statement == statements[Len(statements)]
             rest == SubSeq(statements, 1, Len(statements) - 1)
         IN  IF isNamespaceStatement(statement)
             THEN FlagTopLevelLoopRootOnly(rest)
             ELSE (IF nodes[statement].kind \notin AllowedAtTopLevel
                   THEN <<Diagnostic("unexpectedStatementOutsideFunction", << >>,
                                     NodeRange(statement))>>
                   ELSE << >>)
                  \o FlagTopLevelLoopRootOnly(rest)

\* (faulty variant: the statements are taken from the front of the list, and
\* the statements of a namespace body are put in the place of the namespace)
RECURSIVE FlagTopLevelLoopFromFront(_)
FlagTopLevelLoopFromFront(statements) ==
    IF statements = << >> THEN << >>
    ELSE LET statement == Head(statements)
             rest == Tail(statements)
         IN  IF isNamespaceStatement(statement)
             THEN FlagTopLevelLoopFromFront(NamespaceBodyStatements(statement) \o rest)
             ELSE (IF nodes[statement].kind \notin AllowedAtTopLevel
                   THEN <<Diagnostic("unexpectedStatementOutsideFunction", << >>,
                                     NodeRange(statement))>>
                   ELSE << >>)
                  \o FlagTopLevelLoopFromFront(rest)

\* the loop of flagTopLevelStatements on the stack `statements`: the
\* diagnostics it adds
RECURSIVE FlagTopLevelLoop(_)
FlagTopLevelLoop(statements) ==
    IF statements = << >> THEN << >>
    ELSE LET statement == statements[Len(statements)]
             rest == SubSeq(statements, 1, Len(statements) - 1)
         IN  IF isNamespaceStatement(statement)
             THEN FlagTopLevelLoop(rest \o NamespaceBodyStatements(statement))
             ELSE (IF nodes[statement].kind \notin AllowedAtTopLevel
                   THEN <<Diagnostic("unexpectedStatementOutsideFunction", << >>,
                                     NodeRange(statement))>>
                   ELSE << >>)
                  \o FlagTopLevelLoop(rest)

flagTopLevelStatements == FlagTopLevelLoop(RootStatements)

\* ------------------------------------------------------ import statements
isCommentStatement(n) == nodes[n].kind = "CommentStatement"
isLibraryStatement(n) == nodes[n].kind = "LibraryStatement"
isImportStatement(n) == nodes[n].kind = "ImportStatement"

\* (faulty variant: a comment ends the top of the file)
RECURSIVE TopOfFileIncludeStatementsNoComments(_)
TopOfFileIncludeStatementsNoComments(statements) ==
    IF statements = << >> THEN {}
    ELSE IF isLibraryStatement(Head(statements)) \/ isImportStatement(Head(statements))
    THEN {Head(statements)} \cup TopOfFileIncludeStatementsNoComments(Tail(statements))
    ELSE {}

\* the first loop of validateImportStatements
RECURSIVE TopOfFileIncludeStatements(_)
TopOfFileIncludeStatements(statements) ==
    IF statements = << >> THEN {}
    ELSE IF isCommentStatement(Head(statements))
    THEN TopOfFileIncludeStatements(Tail(statements))
    ELSE IF isLibraryStatement(Head(statements)) \/ isImportStatement(Head(statements))
    THEN {Head(statements)} \cup TopOfFileIncludeStatements(Tail(statements))
    ELSE {}

\* parser.references.libraryStatements and .importStatements
LibraryStatements == SelectSeq([i \in 1..Len(nodes) |-> i], isLibraryStatement)
ImportStatements == SelectSeq([i \in 1..Len(nodes) |-> i], isImportStatement)

\* the second loop of validateImportStatements: the diagnostics it pushes
RECURSIVE ImportDiagnostics(_, _)
ImportDiagnostics(statements, top) ==
    IF statements = << >> THEN << >>
    ELSE LET result == Head(statements)
         IN  (IF result \notin top
              THEN IF isLibraryStatement(result)
                   THEN <<Diagnostic("libraryStatementMustBeDeclaredAtTopOfFile", << >>,
                                     NodeRange(result))>>
                   ELSE IF isImportStatement(result)
                   THEN <<Diagnostic("importStatementMustBeDeclaredAtTopOfFile", << >>,
                                     NodeRange(result))>>
                   ELSE << >>
              ELSE << >>)
             \o ImportDiagnostics(Tail(statements), top)

\* (faulty variant: the import statements are looked at before the library
\* statements)
validateImportStatementsImportsFirst ==
    ImportDiagnostics(ImportStatements \o LibraryStatements,
                      TopOfFileIncludeStatements(RootStatements))

validateImportStatements ==
    ImportDiagnostics(LibraryStatements \o ImportStatements,
                      TopOfFileIncludeStatements(RootStatements))

\* ------------------------------------------------------- the files checked
\* A file is built from a chain of nested constructs: each construct is the
\* sequence of nodes it contributes, every node the parent of the next.
Sub == [kind |-> "Sub", text |-> <<"s", "u", "b">>]
Function == [kind |-> "Function", text |-> <<"f", "u", "n", "c", "t", "i", "o", "n">>]

WhileConstruct == <<Node("WhileStatement", 0), Node("Block", 0)>>
ForConstruct == <<Node("ForStatement", 0), Node("Block", 0)>>
ForEachConstruct ==
    <<[Node("ForEachStatement", 0) EXCEPT !.name = Some(<<"x">>)], Node("Block", 0)>>
IfConstruct == <<Node("IfStatement", 0), Node("Block", 0)>>
NamespaceConstruct ==
    <<[Node("NamespaceStatement", 0) EXCEPT !.name = Some(<<"n", ".", "s">>)],
      Node("Body", 0)>>
FunctionConstruct(functionType, returnTypeToken) ==
    <<[Node("FunctionStatement", 0) EXCEPT !.name = Some(<<"f">>)],
      [Node("FunctionExpression", 0) EXCEPT !.functionType = functionType,
                                            !.returnTypeToken = returnTypeToken],
      Node("Block", 0)>>

RECURSIVE Flatten(_)
Flatten(ss) == IF ss = << >> THEN << >> ELSE Head(ss) \o Flatten(Tail(ss))

\* the sequences of at most n elements of S
SeqsUpTo(S, n) == UNION {[1..k -> S] : k \in 0..n}

\* the tree: a root Body, the constructs, and the leaf statement
Tree(constructs, leaf) ==
    LET chain == <<Node("Body", 0)>> \o Flatten(constructs) \o <<leaf>>
    IN  [i \in 1..Len(chain) |-> [chain[i] EXCEPT !.parent = i - 1]]

LoopTypeTexts ==
    {<<"w", "h", "i", "l", "e">>, <<"W", "H", "I", "L", "E">>,
     <<"f", "o", "r">>, <<"F", "o", "r">>}

\* (the families of files are predicates on the tree t)
ContinueFile(t) ==
    \E cs \in SeqsUpTo({WhileConstruct, ForConstruct, ForEachConstruct, IfConstruct,
                        FunctionConstruct(Some(Sub), Undefined)}, MaxSegs),
       lt \in {Undefined} \cup {Some(text) : text \in LoopTypeTexts} :
        t = Tree(cs, [Node("ContinueStatement", 0) EXCEPT !.loopType = lt])

FunctionConstructs ==
    {FunctionConstruct(ft, rt) : ft \in {Undefined, Some(Sub), Some(Function)},
                                 rt \in {Undefined, Some("Void"), Some("Integer")}}

ReturnFile(t) ==
    \E cs \in SeqsUpTo(FunctionConstructs \cup {WhileConstruct, NamespaceConstruct},
                       MaxReturnSegs),
       v \in BOOLEAN :
        t = Tree(cs, [Node("ReturnStatement", 0) EXCEPT !.value = v])

MemberNames == {<<"a">>, <<"A">>, <<"b">>}
MemberValues ==
    {Undefined,
     Some(LiteralExpression("IntegerLiteral")),
     Some(LiteralExpression("FloatLiteral")),
     Some(LiteralExpression("StringLiteral")),
     Some(UnaryExpression(LiteralExpression("IntegerLiteral"))),
     Some(UnaryExpression(LiteralExpression("FloatLiteral"))),
     Some(VariableExpression),
     Some(SourceLiteralExpression)}
Members == {[name |-> Some(n), value |-> v] : n \in MemberNames, v \in MemberValues}

EnumFile(t) ==
    \/ \E ms \in SeqsUpTo(Members, MaxMembers) :
           t = Tree(<< >>, [Node("EnumStatement", 0) EXCEPT !.name = Some(<<"E">>),
                                                            !.members = ms])
    \/ \E cs \in {<<NamespaceConstruct>>, <<FunctionConstruct(Some(Sub), Undefined)>>},
          nm \in {Undefined, Some(<<"E">>)},
          ms \in {<< >>, <<[name |-> Some(<<"a">>), value |-> Undefined]>>,
                  \* a = 1, A = 1.5, b = "s"
                  <<[name |-> Some(<<"a">>),
                     value |-> Some(LiteralExpression("IntegerLiteral"))],
                    [name |-> Some(<<"A">>),
                     value |-> Some(LiteralExpression("FloatLiteral"))],
                    [name |-> Some(<<"b">>),
                     value |-> Some(LiteralExpression("StringLiteral"))]>>} :
           t = Tree(cs, [Node("EnumStatement", 0) EXCEPT !.name = nm, !.members = ms])

\* the declarations placed below the constructs: class, interface, const
\* (named or with the name token missing), function, namespace, enum
Declarations ==
    {<<[Node(k, 0) EXCEPT !.name = nm]>> :
        k \in {"ClassStatement", "InterfaceStatement", "ConstStatement"},
        nm \in {Undefined, Some(<<"C">>)}}
    \cup {FunctionConstruct(Some(Function), Undefined), NamespaceConstruct,
          <<[Node("EnumStatement", 0) EXCEPT !.name = Some(<<"E">>)]>>}

DeclFile(t) ==
    \E cs \in SeqsUpTo({NamespaceConstruct, WhileConstruct,
                        FunctionConstruct(Some(Sub), Undefined)}, MaxDeclSegs),
       d \in Declarations :
        t = Tree(cs \o <<SubSeq(d, 1, Len(d) - 1)>>, d[Len(d)])

\* a.b = 1, a?.b = 1, a[0] = 1, a?[0] = 1: the statement without its object
SetStatements ==
    {[Node("DottedSetStatement", 0) EXCEPT !.dot = Some(d)] : d \in {"Dot", "QuestionDot"}}
    \cup
    {[Node("IndexedSetStatement", 0) EXCEPT !.openingSquare = Some(o)] :
        o \in {"LeftSquare", "QuestionLeftSquare"}}

\* x.b, x?.b, x[0], x?[0], x?.[0]: a get expression without its object
GetExpressions ==
    {[Node("DottedGetExpression", 0) EXCEPT !.dot = Some(d)] : d \in {"Dot", "QuestionDot"}}
    \cup
    {[Node("IndexedGetExpression", 0) EXCEPT !.openingSquare = Some(o)] :
        o \in {"LeftSquare", "QuestionLeftSquare"}}
    \cup
    {[Node("IndexedGetExpression", 0) EXCEPT !.openingSquare = Some("LeftSquare"),
                                             !.questionDotToken = Some("QuestionDot")]}

\* a sub whose only statement is a set; the object of the statement is the
\* chain of get expressions down to the variable
SetFile(t) ==
    \E st \in SetStatements, gets \in SeqsUpTo(GetExpressions, MaxGets) :
        t = Tree(<<FunctionConstruct(Some(Sub), Undefined), <<st>>, gets>>,
                 Node("VariableExpression", 0))

\* the statements at the root and in namespace bodies: a print statement (not
\* allowed outside a function), a comment, library, import, a function, a
\* namespace
TopLevelKinds ==
    {"PrintStatement", "CommentStatement", "LibraryStatement", "ImportStatement",
     "FunctionStatement", "NamespaceStatement"}

\* entry i of outline f and the namespace entries around it
RECURSIVE EnclosingEntries(_, _)
EnclosingEntries(f, i) == IF i = 0 THEN {} ELSE {i} \cup EnclosingEntries(f, f[i].parent)

\* the outlines of n statements: each statement is at the root (parent 0) or
\* in the body of a namespace that is still open after the statement before it
RECURSIVE Outlines(_)
Outlines(n) ==
    IF n = 0 THEN {<< >>}
    ELSE UNION {{Append(f, [kind |-> k, parent |-> p]) :
                    k \in TopLevelKinds,
                    p \in {0} \cup {q \in EnclosingEntries(f, n - 1) :
                                       f[q].kind = "NamespaceStatement"}} :
                f \in Outlines(n - 1)}

\* the nodes of one statement of an outline
StatementNodes(kind) ==
    IF kind = "NamespaceStatement" THEN NamespaceConstruct
    ELSE IF kind = "FunctionStatement" THEN FunctionConstruct(Some(Sub), Undefined)
    ELSE <<Node(kind, 0)>>

\* the index of the first node of entry i of outline f
RECURSIVE FirstNode(_, _)
FirstNode(f, i) ==
    IF i = 1 THEN 2 ELSE FirstNode(f, i - 1) + Len(StatementNodes(f[i - 1].kind))

\* the nodes of entries i.. of outline f
RECURSIVE OutlineNodes(_, _)
OutlineNodes(f, i) ==
    IF i > Len(f) THEN << >>
    ELSE LET first == FirstNode(f, i)
             construct == StatementNodes(f[i].kind)
             \* the root body, or the body of the enclosing namespace
             body == IF f[i].parent = 0 THEN 1 ELSE FirstNode(f, f[i].parent) + 1
         IN  [j \in 1..Len(construct) |->
                 [construct[j] EXCEPT !.parent = IF j = 1 THEN body ELSE first + j - 2]]
             \o OutlineNodes(f, i + 1)

TopLevelFile(t) ==
    \E n \in 1..MaxStatements :
        \E f \in Outlines(n) : t = <<Node("Body", 0)>> \o OutlineNodes(f, 1)

\* function f(p1, ..., pn): the parameters are the first children of the
\* function expression, its block the last
ParameterTree(n) ==
    <<Node("Body", 0),
      [Node("FunctionStatement", 1) EXCEPT !.name = Some(<<"f">>)],
      [Node("FunctionExpression", 2) EXCEPT !.functionType = Some(Function),
                                            !.parameters = [i \in 1..n |-> 3 + i]]>>
    \o [i \in 1..n |->
           [Node("FunctionParameterExpression", 3) EXCEPT !.name = Some(<<"p", ToString(i)>>)]]
    \o <<Node("Block", 3)>>

ParameterFile(t) ==
    \/ \E n \in 0..(MaximumArguments + MaxExtraParameters) : t = ParameterTree(n)
    \/ \* function f(m), function f(M): the parameter has the name of the
       \* injected binding
       \E name \in {<<"m">>, <<"M">>} :
           t = [ParameterTree(1) EXCEPT ![4].name = Some(name)]

\* sub f(): x@.m(a1, ..., an): the callee and the arguments are the children
\* of the callfunc expression
CallfuncTree(n) ==
    <<Node("Body", 0),
      [Node("FunctionStatement", 1) EXCEPT !.name = Some(<<"f">>)],
      [Node("FunctionExpression", 2) EXCEPT !.functionType = Some(Sub)],
      Node("Block", 3),
      Node("ExpressionStatement", 4),
      [Node("CallfuncExpression", 5) EXCEPT !.name = Some(<<"m">>),
                                            !.args = [i \in 1..n |-> 7 + i]],
      Node("VariableExpression", 6)>>
    \o [i \in 1..n |-> Node("VariableExpression", 6)]

CallfuncFile(t) ==
    \E n \in 0..(MaxCallfuncArgs + MaxExtraArgs) : t = CallfuncTree(n)

\* statements that register a name, with the name token present or missing:
\* in a sub, an assignment, a dim, a for-each, a catch (in its try); at the
\* root, a function and a namespace without a name; a parameter without a name
NameFile(t) ==
    \/ \E k \in {"AssignmentStatement", "DimStatement", "ForEachStatement"},
          nm \in {Undefined, Some(<<"x">>)} :
           t = Tree(<<FunctionConstruct(Some(Sub), Undefined)>>,
                    [Node(k, 0) EXCEPT !.name = nm])
    \/ \E nm \in {Undefined, Some(<<"e">>)} :
           t = Tree(<<FunctionConstruct(Some(Sub), Undefined),
                      <<Node("TryCatchStatement", 0)>>>>,
                    [Node("CatchStatement", 0) EXCEPT !.name = nm])
    \/ t = Tree(<<<<Node("FunctionStatement", 0),
                    [Node("FunctionExpression", 0) EXCEPT !.functionType = Some(Sub)]>>>>,
                Node("Block", 0))
    \/ t = Tree(<<<<Node("NamespaceStatement", 0)>>>>, Node("Body", 0))
    \/ t = [ParameterTree(1) EXCEPT ![4].name = Undefined]

\* the files checked
File(t) ==
    \/ NameFile(t)
    \/ ContinueFile(t)
    \/ ReturnFile(t)
    \/ EnumFile(t)
    \/ SetFile(t)
    \/ DeclFile(t)
    \/ TopLevelFile(t)
    \/ ParameterFile(t)
    \/ CallfuncFile(t)

Init ==
    /\ File(nodes)
    /\ hasTypedef \in BOOLEAN
    /\ diagnostics = << >>
    /\ symbolTables = [i \in 1..Len(nodes) |-> {}]
    /\ enumValueKinds = [i \in 1..Len(nodes) |-> Undefined]
    /\ pc = "walk"
    /\ idx = 1
    /\ run = 1
    /\ firstRun = Undefined

\* ---------------------------------------------------------------- the walk
\* process() first calls util.validateTooDeepFile(file), which reports a file
\* nested deeper than the files checked here and is not part of this model;
\* then walk() visits every node in pre-order, one callback per node.  A
\* TypeError thrown by a callback leaves walk() and process(): pc = "threw".
\* the node kinds the visitor of walk() has no callback for
NoVisitorKinds ==
    {"Body", "Block", "WhileStatement", "ForStatement", "IfStatement",
     "VariableExpression", "DottedGetExpression", "IndexedGetExpression",
     "PrintStatement", "CommentStatement", "LibraryStatement", "ImportStatement",
     "ExpressionStatement", "TryCatchStatement"}

Visiting(kind) == pc = "walk" /\ idx <= Len(nodes) /\ nodes[idx].kind = kind

\* the walk goes on to the next node
NextNode == idx' = idx + 1 /\ pc' = "walk"

\* a node without a visitor callback
VisitOther ==
    /\ pc = "walk" /\ idx <= Len(nodes) /\ nodes[idx].kind \in NoVisitorKinds
    /\ NextNode
    /\ UNCHANGED <<run, firstRun, nodes, hasTypedef, diagnostics, symbolTables, enumValueKinds>>

\* the EnumStatement callback
VisitEnumStatement ==
    /\ Visiting("EnumStatement")
    /\ diagnostics' = diagnostics
            \o validateDeclarationLocations(idx, <<"e", "n", "u", "m">>)
            \o validateEnumDeclaration(idx)
    /\ symbolTables' =
            \* register this enum declaration
            IF IsDefined(nodes[idx].name) /\ getSymbolTable(Parent(idx)) # 0
            THEN AddTo(symbolTables, getSymbolTable(Parent(idx)), Val(nodes[idx].name),
                       Some(Range(idx, 0, "name")), DynamicType)
            ELSE symbolTables
    /\ enumValueKinds' = [enumValueKinds EXCEPT ![idx] = Some(EnumValueKind(nodes[idx].members))]
    /\ NextNode
    /\ UNCHANGED <<run, firstRun, nodes, hasTypedef>>

\* the ClassStatement callback
VisitClassStatement ==
    /\ Visiting("ClassStatement")
    /\ diagnostics' = diagnostics
            \o validateDeclarationLocations(idx, <<"c", "l", "a", "s", "s">>)
    /\ symbolTables' =
            \* register this class
            IF IsDefined(nodes[idx].name) /\ getSymbolTable(Parent(idx)) # 0
            THEN AddTo(symbolTables, getSymbolTable(Parent(idx)), Val(nodes[idx].name),
                       Some(Range(idx, 0, "name")), DynamicType)
            ELSE symbolTables
    /\ NextNode
    /\ UNCHANGED <<run, firstRun, nodes, hasTypedef, enumValueKinds>>

\* the InterfaceStatement callback
VisitInterfaceStatement ==
    /\ Visiting("InterfaceStatement")
    /\ diagnostics' = diagnostics
            \o validateDeclarationLocations(idx, <<"i", "n", "t", "e", "r", "f", "a", "c", "e">>)
    /\ symbolTables' =
            IF IsDefined(nodes[idx].name) /\ Parent(idx) # 0
               /\ getSymbolTable(Parent(idx)) # 0
            THEN AddTo(symbolTables, getSymbolTable(Parent(idx)), Val(nodes[idx].name),
                       Some(Range(idx, 0, "name")), InterfaceType)
            ELSE symbolTables
    /\ NextNode
    /\ UNCHANGED <<run, firstRun, nodes, hasTypedef, enumValueKinds>>

\* the ConstStatement callback
VisitConstStatement ==
    /\ Visiting("ConstStatement")
    /\ diagnostics' = diagnostics
            \o validateDeclarationLocations(idx, <<"c", "o", "n", "s", "t">>)
    /\ symbolTables' =
            IF IsDefined(nodes[idx].name)
            THEN AddTo(symbolTables, getSymbolTable(Parent(idx)), Val(nodes[idx].name),
                       Some(Range(idx, 0, "name")), DynamicType)
            ELSE symbolTables
    /\ NextNode
    /\ UNCHANGED <<run, firstRun, nodes, hasTypedef, enumValueKinds>>

\* the AssignmentStatement callback
VisitAssignmentStatement ==
    /\ Visiting("AssignmentStatement")
    /\ symbolTables' =
            \* register this variable
            IF IsDefined(nodes[idx].name) /\ getSymbolTable(Parent(idx)) # 0
            THEN AddTo(symbolTables, getSymbolTable(Parent(idx)), Val(nodes[idx].name),
                       Some(Range(idx, 0, "name")), DynamicType)
            ELSE symbolTables
    /\ NextNode
    /\ UNCHANGED <<run, firstRun, nodes, hasTypedef, diagnostics, enumValueKinds>>

\* the CatchStatement callback (the exception variable is the node's `name`)
VisitCatchStatement ==
    /\ Visiting("CatchStatement")
    /\ IF ~IsDefined(nodes[idx].name)
       THEN \* node.exceptionVariable.text of an undefined token: TypeError
            pc' = "threw" /\ UNCHANGED <<idx, symbolTables>>
       ELSE /\ symbolTables' =
                    AddTo(symbolTables, getSymbolTable(Parent(idx)), Val(nodes[idx].name),
                          Some(Range(idx, 0, "exceptionVariable")), DynamicType)
            /\ NextNode
    /\ UNCHANGED <<run, firstRun, nodes, hasTypedef, diagnostics, enumValueKinds>>

\* the DimStatement callback (the identifier is the node's `name`)
VisitDimStatement ==
    /\ Visiting("DimStatement")
    /\ symbolTables' =
            IF IsDefined(nodes[idx].name)
            THEN AddTo(symbolTables, getSymbolTable(Parent(idx)), Val(nodes[idx].name),
                       Some(Range(idx, 0, "identifier")), DynamicType)
            ELSE symbolTables
    /\ NextNode
    /\ UNCHANGED <<run, firstRun, nodes, hasTypedef, diagnostics, enumValueKinds>>

\* the ForEachStatement callback
VisitForEachStatement ==
    /\ Visiting("ForEachStatement")
    /\ IF ~IsDefined(nodes[idx].name)
       THEN \* node.item.text of an undefined item: TypeError
            pc' = "threw" /\ UNCHANGED <<idx, symbolTables>>
       ELSE /\ symbolTables' =
                    IF getSymbolTable(Parent(idx)) # 0
                    THEN AddTo(symbolTables, getSymbolTable(Parent(idx)),
                               Val(nodes[idx].name), Some(Range(idx, 0, "item")), DynamicType)
                    ELSE symbolTables
            /\ NextNode
    /\ UNCHANGED <<run, firstRun, nodes, hasTypedef, diagnostics, enumValueKinds>>

\* the NamespaceStatement callback
VisitNamespaceStatement ==
    /\ Visiting("NamespaceStatement")
    /\ diagnostics' = diagnostics
            \o validateDeclarationLocations(idx, <<"n", "a", "m", "e", "s", "p", "a", "c", "e">>)
    /\ symbolTables' =
            IF IsDefined(nodes[idx].name)
            THEN AddTo(symbolTables, getSymbolTable(Parent(idx)),
                       FirstSegment(Val(nodes[idx].name)),
                       Some(Range(idx, 0, "nameExpression")), DynamicType)
            ELSE symbolTables
    /\ NextNode
    /\ UNCHANGED <<run, firstRun, nodes, hasTypedef, enumValueKinds>>

\* (faulty variant: only a function directly in a namespace body counts as
\* namespaced)
VisitFunctionStatementDirectOnly ==
    /\ Visiting("FunctionStatement")
    /\ diagnostics' = diagnostics
            \o validateDeclarationLocations(idx, <<"f", "u", "n", "c", "t", "i", "o", "n">>)
    /\ LET named == IsDefined(nodes[idx].name) /\ Val(nodes[idx].name) # << >>
           registered == IF named
                         THEN AddTo(symbolTables, getSymbolTable(Parent(idx)),
                                    Val(nodes[idx].name), Some(Range(idx, 0, "name")),
                                    DynamicType)
                         ELSE symbolTables
           namespace == IF isNamespaceStatement(Parent(Parent(idx)))
                        THEN Parent(Parent(idx)) ELSE 0
       IN  symbolTables' =
               \* this function is declared inside a namespace: add the transpiled
               \* name to the root symbol table
               IF namespace # 0 /\ IsDefined(nodes[idx].name)
               THEN AddTo(registered, 1, getName(idx), Some(Range(idx, 0, "name")),
                          [kind |-> "function", name |-> getName(idx)])
               ELSE registered
    /\ NextNode
    /\ UNCHANGED <<run, firstRun, nodes, hasTypedef, enumValueKinds>>

\* the FunctionStatement callback
VisitFunctionStatement ==
    /\ Visiting("FunctionStatement")
    /\ diagnostics' = diagnostics
            \o validateDeclarationLocations(idx, <<"f", "u", "n", "c", "t", "i", "o", "n">>)
    /\ LET named == IsDefined(nodes[idx].name) /\ Val(nodes[idx].name) # << >>
           registered == IF named
                         THEN AddTo(symbolTables, getSymbolTable(Parent(idx)),
                                    Val(nodes[idx].name), Some(Range(idx, 0, "name")),
                                    DynamicType)
                         ELSE symbolTables
           namespace == findAncestorNamespace(idx)
       IN  symbolTables' =
               \* this function is declared inside a namespace: add the transpiled
               \* name to the root symbol table
               IF namespace # 0 /\ IsDefined(nodes[idx].name)
               THEN AddTo(registered, 1, getName(idx), Some(Range(idx, 0, "name")),
                          [kind |-> "function", name |-> getName(idx)])
               ELSE registered
    /\ NextNode
    /\ UNCHANGED <<run, firstRun, nodes, hasTypedef, enumValueKinds>>

\* (faulty variant: the parameter count is validated only when `m` is added)
VisitFunctionExpressionCountWithM ==
    /\ Visiting("FunctionExpression")
    /\ symbolTables' =
            IF ~hasSymbol(symbolTables[idx], <<"m">>)
            THEN AddTo(symbolTables, idx, <<"m">>, Undefined, DynamicType)
            ELSE symbolTables
    /\ LET result == IF ~hasSymbol(symbolTables[idx], <<"m">>)
                     THEN validateFunctionParameterCount(idx)
                     ELSE [diags |-> << >>, threw |-> FALSE]
       IN  /\ diagnostics' = diagnostics \o result.diags
           /\ IF result.threw THEN pc' = "threw" /\ UNCHANGED idx ELSE NextNode
    /\ UNCHANGED <<run, firstRun, nodes, hasTypedef, enumValueKinds>>

\* (faulty variant: `m` is added without asking whether it is there)
VisitFunctionExpressionAlwaysAddsM ==
    /\ Visiting("FunctionExpression")
    /\ symbolTables' = AddTo(symbolTables, idx, <<"m">>, Undefined, DynamicType)
    /\ LET result == validateFunctionParameterCount(idx)
       IN  /\ diagnostics' = diagnostics \o result.diags
           /\ IF result.threw THEN pc' = "threw" /\ UNCHANGED idx ELSE NextNode
    /\ UNCHANGED <<run, firstRun, nodes, hasTypedef, enumValueKinds>>

\* the FunctionExpression callback
VisitFunctionExpression ==
    /\ Visiting("FunctionExpression")
    /\ symbolTables' =
            IF ~hasSymbol(symbolTables[idx], <<"m">>)
            THEN AddTo(symbolTables, idx, <<"m">>, Undefined, DynamicType)
            ELSE symbolTables
    /\ LET result == validateFunctionParameterCount(idx)
       IN  /\ diagnostics' = diagnostics \o result.diags
           /\ IF result.threw THEN pc' = "threw" /\ UNCHANGED idx ELSE NextNode
    /\ UNCHANGED <<run, firstRun, nodes, hasTypedef, enumValueKinds>>

\* the FunctionParameterExpression callback
VisitFunctionParameterExpression ==
    /\ Visiting("FunctionParameterExpression")
    /\ symbolTables' =
            IF IsDefined(nodes[idx].name) /\ getSymbolTable(idx) # 0
            THEN AddTo(symbolTables, getSymbolTable(idx), Val(nodes[idx].name),
                       Some(Range(idx, 0, "name")), DynamicType)
            ELSE symbolTables
    /\ NextNode
    /\ UNCHANGED <<run, firstRun, nodes, hasTypedef, diagnostics, enumValueKinds>>

\* the CallfuncExpression callback
VisitCallfuncExpression ==
    /\ Visiting("CallfuncExpression")
    /\ LET result == validateCallfuncArgs(idx)
       IN  /\ diagnostics' = diagnostics \o result.diags
           /\ IF result.threw THEN pc' = "threw" /\ UNCHANGED idx ELSE NextNode
    /\ UNCHANGED <<run, firstRun, nodes, hasTypedef, symbolTables, enumValueKinds>>

\* the DottedSetStatement and IndexedSetStatement callbacks
VisitSetStatement(kind) ==
    /\ Visiting(kind)
    /\ LET result == validateNoOptionalChainingInVarSet(idx)
       IN  IF result.threw
           THEN /\ diagnostics' = diagnostics \o result.diags
                /\ pc' = "threw" /\ UNCHANGED idx
           ELSE diagnostics' = diagnostics \o result.diags /\ NextNode
    /\ UNCHANGED <<run, firstRun, nodes, hasTypedef, symbolTables, enumValueKinds>>

VisitDottedSetStatement == VisitSetStatement("DottedSetStatement")

VisitIndexedSetStatement == VisitSetStatement("IndexedSetStatement")

\* the ReturnStatement callback
VisitReturnStatement ==
    /\ Visiting("ReturnStatement")
    /\ IF ReturnVisitorThrows(idx)
       THEN pc' = "threw" /\ UNCHANGED <<idx, diagnostics>>
       ELSE diagnostics' = diagnostics \o ReturnVisitorDiagnostics(idx) /\ NextNode
    /\ UNCHANGED <<run, firstRun, nodes, hasTypedef, symbolTables, enumValueKinds>>

\* the ContinueStatement callback
VisitContinueStatement ==
    /\ Visiting("ContinueStatement")
    /\ diagnostics' = diagnostics \o validateContinueStatement(idx)
    /\ NextNode
    /\ UNCHANGED <<run, firstRun, nodes, hasTypedef, symbolTables, enumValueKinds>>

\* (faulty variant: the loop pops from file.ast.statements itself, not from a
\* copy of it, and leaves the root without statements)
FlagTopLevelStatementsInPlace ==
    /\ pc = "walk" /\ idx > Len(nodes)
    /\ diagnostics' = diagnostics \o flagTopLevelStatements
    /\ nodes' = [i \in 1..Len(nodes) |->
                    IF nodes[i].parent = 1 THEN [nodes[i] EXCEPT !.parent = 0]
                    ELSE nodes[i]]
    /\ pc' = "validateImportStatements"
    /\ UNCHANGED <<run, firstRun, hasTypedef, symbolTables, enumValueKinds, idx>>

\* walk() has returned: this.flagTopLevelStatements()
FlagTopLevelStatements ==
    /\ pc = "walk" /\ idx > Len(nodes)
    /\ diagnostics' = diagnostics \o flagTopLevelStatements
    /\ pc' = "validateImportStatements"
    /\ UNCHANGED <<run, firstRun, nodes, hasTypedef, symbolTables, enumValueKinds, idx>>

\* (faulty variant: the typedef flag is not looked at)
ValidateImportStatementsAlways ==
    /\ pc = "validateImportStatements"
    /\ diagnostics' = diagnostics \o validateImportStatements
    /\ pc' = "done"
    /\ UNCHANGED <<run, firstRun, nodes, hasTypedef, symbolTables, enumValueKinds, idx>>

\* (faulty variant: the diagnostics of the file are assigned, not pushed to)
ValidateImportStatementsAssigns ==
    /\ pc = "validateImportStatements" /\ ~hasTypedef
    /\ diagnostics' = validateImportStatements
    /\ pc' = "done"
    /\ UNCHANGED <<run, firstRun, nodes, hasTypedef, symbolTables, enumValueKinds, idx>>

\* if (!this.event.file.hasTypedef) this.validateImportStatements()
ValidateImportStatements ==
    /\ pc = "validateImportStatements" /\ ~hasTypedef
    /\ diagnostics' = diagnostics \o validateImportStatements
    /\ pc' = "done"
    /\ UNCHANGED <<run, firstRun, nodes, hasTypedef, symbolTables, enumValueKinds, idx>>

\* files containing typedefs are skipped
SkipImportStatements ==
    /\ pc = "validateImportStatements" /\ hasTypedef
    /\ pc' = "done"
    /\ UNCHANGED <<run, firstRun, nodes, hasTypedef, diagnostics, symbolTables, enumValueKinds, idx>>

Next ==
    \/ VisitOther
    \/ VisitEnumStatement
    \/ VisitClassStatement
    \/ VisitInterfaceStatement
    \/ VisitConstStatement
    \/ VisitAssignmentStatement
    \/ VisitCatchStatement
    \/ VisitDimStatement
    \/ VisitForEachStatement
    \/ VisitNamespaceStatement
    \/ VisitFunctionStatement
    \/ VisitFunctionExpression
    \/ VisitFunctionParameterExpression
    \/ VisitCallfuncExpression
    \/ VisitDottedSetStatement
    \/ VisitIndexedSetStatement
    \/ VisitReturnStatement
    \/ VisitContinueStatement
    \/ FlagTopLevelStatements
    \/ ValidateImportStatements
    \/ SkipImportStatements

Spec == Init /\ [][Next]_vars

\* the caller runs process() a second time on the same tree: the file's
\* diagnostics are cleared, the tree and its symbol tables are kept
Rerun ==
    /\ pc \in {"done", "threw"}
    /\ run = 1
    /\ firstRun' = Some([diagnostics |-> diagnostics, symbolTables |-> symbolTables,
                      pc |-> pc, idx |-> idx])
    /\ run' = 2
    /\ diagnostics' = << >>
    /\ pc' = "walk"
    /\ idx' = 1
    /\ UNCHANGED <<nodes, hasTypedef, symbolTables, enumValueKinds>>

NextOrRerun ==
    \/ Next
    \/ Rerun

SpecRerun == Init /\ [][NextOrRerun]_vars

\* process() called on a file that already has a diagnostic, e.g. one of the
\* parser
PreexistingDiagnostic == Diagnostic("preexisting", << >>, Range(0, 0, "range"))

InitPreexisting ==
    /\ File(nodes)
    /\ hasTypedef \in BOOLEAN
    /\ diagnostics = <<PreexistingDiagnostic>>
    /\ symbolTables = [i \in 1..Len(nodes) |-> {}]
    /\ enumValueKinds = [i \in 1..Len(nodes) |-> Undefined]
    /\ pc = "walk"
    /\ idx = 1
    /\ run = 1
    /\ firstRun = Undefined

SpecPreexisting == InitPreexisting /\ [][Next]_vars

\* ================================================================= claims
\* the walk has visited node n (its callback has returned)
Visited(n) == n \in 1..Len(nodes) /\ idx > n

NodesOfKind(kind) == {n \in 1..Len(nodes) : nodes[n].kind = kind}

\* how many diagnostics with this message concern node n, member m
Count(message, n, m) ==
    Cardinality({k \in 1..Len(diagnostics) :
                    /\ diagnostics[k].message = message
                    /\ diagnostics[k].range.node = n
                    /\ diagnostics[k].range.member = m})

\* how many times diagnostic d is in the list
Occurrences(d) == Cardinality({k \in 1..Len(diagnostics) : diagnostics[k] = d})

LoopKinds == {"WhileStatement", "ForStatement", "ForEachStatement"}

\* the enclosing loops of node n, innermost first
RECURSIVE EnclosingLoops(_)
EnclosingLoops(n) ==
    IF nodes[n].parent = 0 THEN << >>
    ELSE (IF nodes[nodes[n].parent].kind \in LoopKinds THEN <<nodes[n].parent>> ELSE << >>)
         \o EnclosingLoops(nodes[n].parent)

\* the keyword a continue statement has to name for loop l, for-each being for
LoopKeyword(l) ==
    IF nodes[l].kind = "WhileStatement" THEN <<"W", "h", "i", "l", "e">> ELSE <<"F", "o", "r">>
LoopKeywordLower(l) ==
    IF nodes[l].kind = "WhileStatement" THEN <<"w", "h", "i", "l", "e">> ELSE <<"f", "o", "r">>

\* the loop-type token of continue statement c names another loop than l
Mismatch(c, l) == toLowerCase(Val(nodes[c].loopType)) # LoopKeywordLower(l)

\* C1: a visited continue statement that has a loop-type token and an
\* enclosing loop has exactly one 'expected token <loopKind>' diagnostic, at
\* the range of the loop-type token, when the token (compared
\* case-insensitively, for-each being for) does not name the nearest
\* enclosing loop, and no diagnostic of validateContinueStatement when it does.
C1_ContinueLoopTypeMatch ==
    \A c \in NodesOfKind("ContinueStatement") :
        (Visited(c) /\ IsDefined(nodes[c].loopType) /\ EnclosingLoops(c) # << >>) =>
            LET l == EnclosingLoops(c)[1]
            IN  /\ Count("illegalContinueStatement", c, 0) = 0
                /\ IF Mismatch(c, l)
                   THEN /\ Count("expectedToken", c, 0) = 1
                        /\ Occurrences(Diagnostic("expectedToken", LoopKeyword(l),
                                                  Range(c, 0, "loopType"))) = 1
                   ELSE Count("expectedToken", c, 0) = 0

\* C1 happens: `continue For` directly in a while loop got its one
\* 'expected token While' diagnostic, in a finished pass
C1_Witness_ForInWhile ==
    /\ pc = "done"
    /\ \E c \in NodesOfKind("ContinueStatement") :
          /\ nodes[c].loopType = Some(<<"F", "o", "r">>)
          /\ EnclosingLoops(c) # << >>
          /\ nodes[EnclosingLoops(c)[1]].kind = "WhileStatement"
          /\ Occurrences(Diagnostic("expectedToken", <<"W", "h", "i", "l", "e">>,
                                    Range(c, 0, "loopType"))) = 1

\* C2: a visited continue statement with no enclosing loop has exactly one
\* 'illegal continue statement' diagnostic, at its own range, and no
\* 'expected token' diagnostic; and its callback never throws, with or
\* without a loop-type token.
C2_IllegalContinue ==
    \A c \in NodesOfKind("ContinueStatement") :
        /\ ~(pc = "threw" /\ idx = c)
        /\ (Visited(c) /\ EnclosingLoops(c) = << >>) =>
              /\ Count("illegalContinueStatement", c, 0) = 1
              /\ Occurrences(Diagnostic("illegalContinueStatement", << >>, NodeRange(c))) = 1
              /\ Count("expectedToken", c, 0) = 0

\* C2 happens: a continue statement without a loop-type token, inside a
\* function but outside of any loop, was flagged in a finished pass
C2_Witness_NoLoopNoToken ==
    /\ pc = "done"
    /\ \E c \in NodesOfKind("ContinueStatement") :
          /\ ~IsDefined(nodes[c].loopType)
          /\ EnclosingLoops(c) = << >>
          /\ findAncestorFunctionExpression(c) # 0
          /\ Count("illegalContinueStatement", c, 0) = 1

\* C3: for a visited continue statement nested in several loops, only the
\* innermost loop is compared with the loop-type token: there is one
\* 'expected token' diagnostic, naming the innermost loop, when the token
\* mismatches the innermost loop (whatever the outer loops are) and none
\* otherwise; and no continue statement has more than one.
C3_InnermostLoopOnly ==
    \A c \in NodesOfKind("ContinueStatement") :
        Visited(c) =>
            /\ Count("expectedToken", c, 0) <= 1
            /\ (IsDefined(nodes[c].loopType) /\ Len(EnclosingLoops(c)) >= 2) =>
                  LET inner == EnclosingLoops(c)[1]
                  IN  /\ Count("expectedToken", c, 0) = (IF Mismatch(c, inner) THEN 1 ELSE 0)
                      /\ \A k \in 1..Len(diagnostics) :
                            (diagnostics[k].message = "expectedToken"
                             /\ diagnostics[k].range.node = c)
                                => diagnostics[k].arg = LoopKeyword(inner)

\* C3 happens: `continue while` in a for loop inside a while loop was flagged
\* with 'expected token For', although an outer while loop exists
C3_Witness_OuterLoopOfNamedKind ==
    \E c \in NodesOfKind("ContinueStatement") :
        /\ Visited(c)
        /\ nodes[c].loopType = Some(<<"w", "h", "i", "l", "e">>)
        /\ Len(EnclosingLoops(c)) >= 2
        /\ nodes[EnclosingLoops(c)[1]].kind = "ForStatement"
        /\ nodes[EnclosingLoops(c)[2]].kind = "WhileStatement"
        /\ Occurrences(Diagnostic("expectedToken", <<"F", "o", "r">>,
                                  Range(c, 0, "loopType"))) = 1

\* the nearest enclosing function literal of node n (0: none)
RECURSIVE EnclosingFunction(_)
EnclosingFunction(n) ==
    IF nodes[n].parent = 0 THEN 0
    ELSE IF nodes[nodes[n].parent].kind = "FunctionExpression" THEN nodes[n].parent
    ELSE EnclosingFunction(nodes[n].parent)

\* function f may not return a value: `as void`, or a sub without return type
IsVoidFunction(f) ==
    \/ nodes[f].returnTypeToken = <<"Void">>
    \/ (nodes[f].functionType # << >> /\ nodes[f].functionType[1].kind = "Sub"
        /\ nodes[f].returnTypeToken = << >>)

\* C4: a visited return statement with an enclosing function literal has a
\* 'void function may not return a value' diagnostic iff the function is void
\* (return type void, or a sub without return type) and the return carries a
\* value, a 'non-void function must return a value' diagnostic iff the
\* function is not void and the return carries no value, and never more than
\* one diagnostic.
C4_ReturnValuePresence ==
    \A r \in NodesOfKind("ReturnStatement") :
        (Visited(r) /\ EnclosingFunction(r) # 0) =>
            LET f == EnclosingFunction(r)
                all == {k \in 1..Len(diagnostics) : diagnostics[k].range.node = r}
            IN  /\ Count("voidFunctionMayNotReturnValue", r, 0)
                      = (IF IsVoidFunction(f) /\ nodes[r].value THEN 1 ELSE 0)
                /\ Count("nonVoidFunctionMustReturnValue", r, 0)
                      = (IF ~IsVoidFunction(f) /\ ~nodes[r].value THEN 1 ELSE 0)
                /\ Cardinality(all) <= 1
                /\ \A k \in all : diagnostics[k].range = NodeRange(r)

\* C4 happens: `sub f(): return: end sub` finished without a diagnostic
C4_Witness_SubReturn ==
    /\ pc = "done"
    /\ diagnostics = << >>
    /\ \E r \in NodesOfKind("ReturnStatement") :
          /\ ~nodes[r].value
          /\ EnclosingFunction(r) # 0
          /\ nodes[EnclosingFunction(r)].functionType = Some(Sub)
          /\ nodes[EnclosingFunction(r)].returnTypeToken = Undefined

\* C5: the return-statement rule never throws: also for a return statement
\* with no enclosing function literal the callback returns, and the pass goes
\* on to the remaining nodes and the later phases.
C5_ReturnRuleNeverThrows ==
    \A r \in NodesOfKind("ReturnStatement") :
        EnclosingFunction(r) = 0 => ~(pc = "threw" /\ idx = r)

\* a member's value with a leading unary operator taken off
Unwrapped(value) ==
    IF value # << >> /\ value[1].type = "UnaryExpression" THEN value[1].right ELSE value

\* the (optionally signed) value is a literal
IsSignedLiteral(value) == Unwrapped(value) # << >> /\ Unwrapped(value)[1].type = "LiteralExpression"

\* the literal kind of an optionally signed literal
LiteralKind(value) == Unwrapped(value)[1].token[1]

HasValue(member) == member.value # << >>

\* the first member, in source order, that has an explicit value (0: none)
FirstValued(members) ==
    IF \E j \in 1..Len(members) : HasValue(members[j])
    THEN CHOOSE j \in 1..Len(members) :
            HasValue(members[j]) /\ \A i \in 1..(j - 1) : ~HasValue(members[i])
    ELSE 0

IntegerText == <<"i", "n", "t", "e", "g", "e", "r">>

\* C6: the value kind inferred for a visited enum is the literal kind of the
\* first member that has an explicit value (stated where that value is an
\* optionally signed literal) and integer when no member has one; an enum
\* whose members all omit their value is integer and gets no 'enum value is
\* required' and no 'enum value must be type' diagnostic.
C6_EnumValueKind ==
    \A e \in NodesOfKind("EnumStatement") :
        Visited(e) =>
            LET members == nodes[e].members
                first == FirstValued(members)
            IN  /\ first = 0 =>
                      /\ enumValueKinds[e] = <<"IntegerLiteral">>
                      /\ \A j \in 1..Len(members) :
                            /\ Count("enumValueIsRequired", e, j) = 0
                            /\ Count("enumValueMustBeType", e, j) = 0
                /\ (first # 0 /\ IsSignedLiteral(members[first].value)) =>
                      enumValueKinds[e] = <<LiteralKind(members[first].value)>>

\* C7: a member of a visited enum has exactly one 'duplicate identifier'
\* diagnostic, at the member's range, iff its lower-cased name is that of an
\* earlier member of the enum, and none otherwise; so the enum has as many as
\* its members minus its distinct lower-cased names.
C7_DuplicateMemberNames ==
    \A e \in NodesOfKind("EnumStatement") :
        Visited(e) =>
            LET members == nodes[e].members
                Lower(j) == toLowerCase(members[j].name[1])
                IsRepeat(j) == \E i \in 1..(j - 1) : Lower(i) = Lower(j)
            IN  /\ \A j \in 1..Len(members) :
                      /\ Count("duplicateIdentifier", e, j) = (IF IsRepeat(j) THEN 1 ELSE 0)
                      /\ IsRepeat(j) =>
                            Occurrences(Diagnostic("duplicateIdentifier", members[j].name[1],
                                                   Range(e, j, "range"))) = 1
                /\ Cardinality({k \in 1..Len(diagnostics) :
                                   /\ diagnostics[k].message = "duplicateIdentifier"
                                   /\ diagnostics[k].range.node = e})
                      = Len(members) - Cardinality({Lower(j) : j \in 1..Len(members)})

\* C7 happens: an enum with members `a = <integer>` and `A = <integer>` got one
\* 'duplicate identifier' diagnostic, for the second member, and nothing else
C7_Witness_SecondNameRepeats ==
    \E e \in NodesOfKind("EnumStatement") :
        /\ Visited(e)
        /\ Len(nodes[e].members) = 2
        /\ nodes[e].members[1] = [name |-> <<<<"a">>>>,
                                  value |-> <<LiteralExpression("IntegerLiteral")>>]
        /\ nodes[e].members[2] = [name |-> <<<<"A">>>>,
                                  value |-> <<LiteralExpression("IntegerLiteral")>>]
        /\ diagnostics = <<Diagnostic("duplicateIdentifier", <<"A">>, Range(e, 2, "range"))>>

\* C8: in a visited enum whose value kind is not integer, a member has an
\* 'enum value is required' diagnostic iff it has no explicit value; a member
\* with an explicit value, literal or not, has none.
C8_ValueRequiredIffOmitted ==
    \A e \in NodesOfKind("EnumStatement") :
        (Visited(e) /\ enumValueKinds[e] # <<"IntegerLiteral">>) =>
            \A j \in 1..Len(nodes[e].members) :
                Count("enumValueIsRequired", e, j)
                    = (IF HasValue(nodes[e].members[j]) THEN 0 ELSE 1)

\* C9: in a visited enum of integer kind, a member has an 'enum value must be
\* type integer' diagnostic (one, at the range of the unwrapped value) iff it
\* has a value that, with a leading unary operator taken off, is not a
\* literal or is a literal of another kind than integer; a member with an
\* omitted value or an integer literal has no value diagnostic.
C9_IntegerEnumValues ==
    \A e \in NodesOfKind("EnumStatement") :
        (Visited(e) /\ enumValueKinds[e] = <<"IntegerLiteral">>) =>
            \A j \in 1..Len(nodes[e].members) :
                LET value == nodes[e].members[j].value
                    flagged == /\ value # << >>
                               /\ \/ ~IsSignedLiteral(value)
                                  \/ LiteralKind(value) # "IntegerLiteral"
                    part == IF value # << >> /\ value[1].type = "UnaryExpression"
                            THEN "value.right" ELSE "value"
                IN  /\ Count("enumValueIsRequired", e, j) = 0
                    /\ Count("enumValueMustBeType", e, j) = (IF flagged THEN 1 ELSE 0)
                    /\ flagged =>
                          Occurrences(Diagnostic("enumValueMustBeType", IntegerText,
                                                 Range(e, j, part))) = 1

\* C9 happens: in an enum that starts `<integer>`, a second member valued
\* `-<float>` got the diagnostic at the float literal, in a finished pass
C9_Witness_SignedFloatInIntegerEnum ==
    /\ pc = "done"
    /\ \E e \in NodesOfKind("EnumStatement") :
          /\ Len(nodes[e].members) = 2
          /\ nodes[e].members[1].value = <<LiteralExpression("IntegerLiteral")>>
          /\ nodes[e].members[2].value = <<UnaryExpression(LiteralExpression("FloatLiteral"))>>
          /\ Count("enumValueMustBeType", e, 1) = 0
          /\ Occurrences(Diagnostic("enumValueMustBeType", IntegerText,
                                    Range(e, 2, "value.right"))) = 1

\* C10: a visited enum in which every member's value is a literal of one and
\* the same kind, each optionally preceded by a unary sign operator, has no
\* 'enum value must be type' and no 'enum value is required' diagnostic,
\* also when the first valued member is the signed one.
C10_SignedValuesLikeLiterals ==
    \A e \in NodesOfKind("EnumStatement") :
        LET members == nodes[e].members
        IN  (/\ Visited(e)
             /\ members # << >>
             /\ \A j \in 1..Len(members) : IsSignedLiteral(members[j].value)
             /\ \A i, j \in 1..Len(members) :
                    LiteralKind(members[i].value) = LiteralKind(members[j].value)) =>
                \A j \in 1..Len(members) :
                    /\ Count("enumValueMustBeType", e, j) = 0
                    /\ Count("enumValueIsRequired", e, j) = 0


\* ---------------------------------------------------------------- C11, C12
SetStatementKinds == {"DottedSetStatement", "IndexedSetStatement"}

\* the statement's own separator is the safe-navigation form: a?.b = 1, a?[0] = 1
OwnSeparatorIsSafe(s) ==
    \/ nodes[s].kind = "DottedSetStatement" /\ nodes[s].dot = Some("QuestionDot")
    \/ nodes[s].kind = "IndexedSetStatement"
       /\ nodes[s].openingSquare = Some("QuestionLeftSquare")

\* n lies below a in the tree
RECURSIVE IsBelow(_, _)
IsBelow(n, a) ==
    /\ n # 0
    /\ nodes[n].parent # 0
    /\ (nodes[n].parent = a \/ IsBelow(nodes[n].parent, a))

\* the get expressions of the object of set statement s, at any depth, that
\* use a safe-navigation operator
SafeGetsIn(s) ==
    {g \in 1..Len(nodes) :
        /\ IsBelow(g, s)
        /\ nodes[g].kind \in {"DottedGetExpression", "IndexedGetExpression"}
        /\ \/ nodes[g].dot = Some("QuestionDot")
           \/ nodes[g].openingSquare = Some("QuestionLeftSquare")
           \/ IsDefined(nodes[g].questionDotToken)}

\* the bounding range of the whole left-hand side of set statement s
LeftHandSideRange(s) ==
    IF nodes[s].kind = "DottedSetStatement"
    THEN [node |-> s, member |-> 0, part |-> "obj..name"]
    ELSE [node |-> s, member |-> 0, part |-> "obj..closingSquare"]

OptionalChainingDiagnostics ==
    {k \in 1..Len(diagnostics) :
        diagnostics[k].message = "noOptionalChainingInLeftHandSideOfAssignment"}

\* C11: a dotted-set or indexed-set statement whose own separator is the
\* safe-navigation form (a?.b = 1, a?[0] = 1) and whose object contains no
\* safe-navigation operator gets exactly one 'no optional chaining in the
\* left-hand side of an assignment' diagnostic, and the range of that
\* diagnostic is the bounding range of the statement's whole left-hand side.
C11_OwnSeparatorFlaggedOnce ==
    \A s \in 1..Len(nodes) :
        (/\ nodes[s].kind \in SetStatementKinds
         /\ Visited(s)
         /\ OwnSeparatorIsSafe(s)
         /\ SafeGetsIn(s) = {})
        => /\ Cardinality({k \in OptionalChainingDiagnostics :
                              diagnostics[k].range.node = s}) = 1
           /\ \A k \in OptionalChainingDiagnostics :
                  diagnostics[k].range.node = s
                  => diagnostics[k].range = LeftHandSideRange(s)

\* a.b[0]?.c = 1 has been visited: the object a.b[0] is two get expressions
\* deep and has no safe navigation
C11_Witness_SafeSeparatorPlainObject ==
    \E s \in 1..Len(nodes) :
        /\ nodes[s].kind = "DottedSetStatement"
        /\ Visited(s)
        /\ OwnSeparatorIsSafe(s)
        /\ SafeGetsIn(s) = {}
        /\ Cardinality({g \in 1..Len(nodes) : IsBelow(g, s)}) = 3
        /\ Len(diagnostics) = 1

\* C12: a set statement with a safe-navigation operator anywhere in its
\* left-hand side, at any nesting depth of the object (a?.b.c.d = 1), gets at
\* least one 'no optional chaining' diagnostic; a set statement with no
\* safe-navigation operator anywhere in its left-hand side gets none.
C12_SafeNavigationAnywhere ==
    \A s \in 1..Len(nodes) :
        (nodes[s].kind \in SetStatementKinds /\ Visited(s))
        => LET count == Cardinality({k \in OptionalChainingDiagnostics :
                                        diagnostics[k].range.node = s})
           IN  IF OwnSeparatorIsSafe(s) \/ SafeGetsIn(s) # {}
               THEN count >= 1
               ELSE count = 0


\* --------------------------------------------------------------------- C13
DeclarationKinds ==
    {"FunctionStatement", "ClassStatement", "EnumStatement", "InterfaceStatement",
     "NamespaceStatement", "ConstStatement"}

\* the keyword of a declaration
KeywordOf(kind) ==
    CASE kind = "FunctionStatement" -> <<"f", "u", "n", "c", "t", "i", "o", "n">>
      [] kind = "ClassStatement" -> <<"c", "l", "a", "s", "s">>
      [] kind = "EnumStatement" -> <<"e", "n", "u", "m">>
      [] kind = "InterfaceStatement" -> <<"i", "n", "t", "e", "r", "f", "a", "c", "e">>
      [] kind = "NamespaceStatement" -> <<"n", "a", "m", "e", "s", "p", "a", "c", "e">>
      [] kind = "ConstStatement" -> <<"c", "o", "n", "s", "t">>

\* d sits directly in the body of a namespace, or directly in the root body
WellPlaced(d) ==
    LET p == nodes[d].parent
        g == IF p = 0 THEN 0 ELSE nodes[p].parent
    IN  \/ (g # 0 /\ nodes[g].kind = "NamespaceStatement")
        \/ (p # 0 /\ nodes[p].kind = "Body" /\ g = 0)

NamespaceLevelDiagnostics(d) ==
    {k \in 1..Len(diagnostics) :
        /\ diagnostics[k].message = "keywordMustBeDeclaredAtNamespaceLevel"
        /\ diagnostics[k].range.node = d}

\* C13: every function, class, enum, interface, namespace or const
\* declaration that has been visited has exactly one 'must be declared at
\* namespace level' diagnostic, naming its keyword, if and only if it is
\* neither directly in a namespace body (its grandparent is a namespace
\* statement) nor directly in the root body (its parent is a body without a
\* parent); otherwise it has none.
C13_DeclarationLocations ==
    \A d \in 1..Len(nodes) :
        (nodes[d].kind \in DeclarationKinds /\ Visited(d))
        => /\ Cardinality(NamespaceLevelDiagnostics(d)) = IF WellPlaced(d) THEN 0 ELSE 1
           /\ \A k \in NamespaceLevelDiagnostics(d) :
                  diagnostics[k].arg = KeywordOf(nodes[d].kind)

\* a class declared inside a sub at the root has been visited and flagged
C13_Witness_ClassInsideSub ==
    \E d \in 1..Len(nodes) :
        /\ nodes[d].kind = "ClassStatement"
        /\ Visited(d)
        /\ d = 5
        /\ nodes[2].kind = "FunctionStatement"
        /\ nodes[nodes[d].parent].kind = "Block"
        /\ Cardinality(NamespaceLevelDiagnostics(d)) = 1


\* --------------------------------------------------------------------- C14
\* s is a statement of the root body, or of the body of a namespace that is
\* itself such a statement
RECURSIVE IsTopLevel(_)
IsTopLevel(s) ==
    LET p == nodes[s].parent
    IN  /\ p # 0
        /\ nodes[p].kind = "Body"
        /\ \/ nodes[p].parent = 0
           \/ /\ nodes[nodes[p].parent].kind = "NamespaceStatement"
              /\ IsTopLevel(nodes[p].parent)

\* what may stand outside a function
MayStandOutsideFunction ==
    {"NamespaceStatement", "FunctionStatement", "ClassStatement", "EnumStatement",
     "InterfaceStatement", "CommentStatement", "LibraryStatement", "ImportStatement",
     "ConstStatement", "TypecastStatement", "AliasStatement"}

TopLevelCheckDone == pc \in {"validateImportStatements", "done"}

\* C14: once the top-level check has run, every statement at the root or in a
\* namespace body reachable through namespace bodies only (to any depth) that
\* is not a namespace, function, class, enum, interface, comment, library,
\* import, const, typecast or alias statement has exactly one 'unexpected
\* statement outside function' diagnostic, and no other node has one: each
\* such statement was examined exactly once and the check terminated.
C14_TopLevelStatements ==
    TopLevelCheckDone
    => \A n \in 1..Len(nodes) :
           Count("unexpectedStatementOutsideFunction", n, 0) =
               IF n # 1 /\ IsTopLevel(n) /\ nodes[n].kind \notin MayStandOutsideFunction
               THEN 1 ELSE 0

\* the top-level check has flagged a print statement in a namespace in a
\* namespace, and nothing else
C14_Witness_PrintInNestedNamespace ==
    /\ TopLevelCheckDone
    /\ \E n \in 1..Len(nodes) :
           /\ nodes[n].kind = "PrintStatement"
           /\ nodes[n].parent # 1
           /\ nodes[nodes[n].parent].parent # 0
           /\ nodes[nodes[nodes[n].parent].parent].parent # 1
           /\ IsTopLevel(n)
           /\ Count("unexpectedStatementOutsideFunction", n, 0) = 1
    /\ Len(diagnostics) = 1


\* --------------------------------------------------------------------- C15
\* n belongs to the longest prefix of the root statement list that consists
\* of library and import statements, comments ignored
InTopOfFilePrefix(n) ==
    /\ nodes[n].parent = 1
    /\ \A m \in 1..n :
           nodes[m].parent = 1
           => nodes[m].kind \in {"CommentStatement", "LibraryStatement", "ImportStatement"}

TopOfFileMessage(kind) ==
    IF kind = "LibraryStatement" THEN "libraryStatementMustBeDeclaredAtTopOfFile"
    ELSE "importStatementMustBeDeclaredAtTopOfFile"

TopOfFileDiagnostics ==
    {k \in 1..Len(diagnostics) :
        diagnostics[k].message \in {"libraryStatementMustBeDeclaredAtTopOfFile",
                                    "importStatementMustBeDeclaredAtTopOfFile"}}

\* C15: after process() on a file without typedef, every library or import
\* statement of the file has exactly one '... must be declared at top of
\* file' diagnostic of its own kind if and only if it is not in the longest
\* prefix of library/import statements of the root statement list (comments
\* ignored), and otherwise none; nothing else has such a diagnostic.
C15_TopOfFile ==
    (pc = "done" /\ ~hasTypedef)
    => /\ \A n \in 1..Len(nodes) :
              nodes[n].kind \in {"LibraryStatement", "ImportStatement"}
              => Cardinality({k \in TopOfFileDiagnostics : diagnostics[k].range.node = n}) =
                     Count(TopOfFileMessage(nodes[n].kind), n, 0)
                 /\ Count(TopOfFileMessage(nodes[n].kind), n, 0) =
                     IF InTopOfFilePrefix(n) THEN 0 ELSE 1
       /\ \A k \in TopOfFileDiagnostics :
              nodes[diagnostics[k].range.node].kind \in {"LibraryStatement", "ImportStatement"}

\* import, function, import: the first import is at the top of the file, the
\* one after the function is flagged
C15_Witness_ImportAfterFunction ==
    /\ pc = "done" /\ ~hasTypedef
    /\ Len(nodes) = 6
    /\ nodes[2].kind = "ImportStatement"
    /\ nodes[3].kind = "FunctionStatement"
    /\ nodes[6].kind = "ImportStatement" /\ nodes[6].parent = 1
    /\ Count("importStatementMustBeDeclaredAtTopOfFile", 2, 0) = 0
    /\ Count("importStatementMustBeDeclaredAtTopOfFile", 6, 0) = 1

\* --------------------------------------------------------------------- C16
\* the diagnostics of the walk and of the top-level check
IsWalkOrTopLevelDiagnostic(d) ==
    d.message \notin {"libraryStatementMustBeDeclaredAtTopOfFile",
                      "importStatementMustBeDeclaredAtTopOfFile"}

TooManyParametersDiagnostics(f) ==
    {k \in 1..Len(diagnostics) :
        /\ diagnostics[k].message = "tooManyCallableParameters"
        /\ diagnostics[k].range.node # 0
        /\ nodes[diagnostics[k].range.node].parent = f}

\* C17: a function with n parameters, M being CallExpression.MaximumArguments:
\* if n > M it has exactly n - M 'too many callable parameters' diagnostics,
\* exactly one for each parameter at (0-based) index >= M, at the range of
\* that parameter's name, each stating n and M; if n <= M it has none.
C17_TooManyParameters ==
    \A f \in 1..Len(nodes) :
        (nodes[f].kind = "FunctionExpression" /\ Visited(f))
        => LET parameters == nodes[f].parameters
               n == Len(parameters)
               M == MaximumArguments
           IN  /\ Cardinality(TooManyParametersDiagnostics(f)) = IF n > M THEN n - M ELSE 0
               /\ \A i \in 0..(n - 1) :
                      Cardinality({k \in TooManyParametersDiagnostics(f) :
                                      diagnostics[k].range =
                                          [node |-> parameters[i + 1], member |-> 0,
                                           part |-> "name"]}) =
                          IF i >= M THEN 1 ELSE 0
               /\ \A k \in TooManyParametersDiagnostics(f) :
                      diagnostics[k].arg = <<ToString(n), ToString(M)>>

\* a function with M + 2 parameters has been visited: two diagnostics
C17_Witness_TwoParametersOverLimit ==
    \E f \in 1..Len(nodes) :
        /\ nodes[f].kind = "FunctionExpression"
        /\ Visited(f)
        /\ Len(nodes[f].parameters) = MaximumArguments + 2
        /\ Cardinality(TooManyParametersDiagnostics(f)) = 2

\* --------------------------------------------------------------------- C18
TooManyArgsDiagnostics(c) ==
    {k \in 1..Len(diagnostics) :
        /\ diagnostics[k].message = "callfuncHasToManyArgs"
        /\ diagnostics[k].range.node = c}

\* C18: a callfunc expression has exactly one 'too many callfunc arguments'
\* diagnostic, at the range of its method name, if and only if it has more
\* than five arguments; otherwise it has none.
C18_CallfuncArguments ==
    \A c \in 1..Len(nodes) :
        (nodes[c].kind = "CallfuncExpression" /\ Visited(c))
        => /\ Cardinality(TooManyArgsDiagnostics(c)) = IF Len(nodes[c].args) > 5 THEN 1 ELSE 0
           /\ \A k \in TooManyArgsDiagnostics(c) :
                  diagnostics[k].range = [node |-> c, member |-> 0, part |-> "methodName"]

\* a callfunc with six arguments has been visited and flagged
C18_Witness_SixArguments ==
    \E c \in 1..Len(nodes) :
        /\ nodes[c].kind = "CallfuncExpression"
        /\ Visited(c)
        /\ Len(nodes[c].args) = 6
        /\ Cardinality(TooManyArgsDiagnostics(c)) = 1


\* --------------------------------------------------------------------- C20
\* the names of the namespaces around node n, outermost first, dots replaced
\* by underscores, each followed by an underscore
RECURSIVE QualifiedPrefix(_)
QualifiedPrefix(n) ==
    IF n = 0 THEN << >>
    ELSE IF nodes[n].kind = "NamespaceStatement"
    THEN QualifiedPrefix(nodes[n].parent)
         \o [i \in DOMAIN Val(nodes[n].name) |->
                IF Val(nodes[n].name)[i] = "." THEN "_" ELSE Val(nodes[n].name)[i]]
         \o <<"_">>
    ELSE QualifiedPrefix(nodes[n].parent)

HasNamespaceAncestor(n) == \E a \in 1..Len(nodes) : nodes[a].kind = "NamespaceStatement" /\ IsBelow(n, a)

FlattenedName(f) == QualifiedPrefix(nodes[f].parent) \o Val(nodes[f].name)

FunctionTypedSymbols(table) == {e \in table : e.type.kind = "function"}

\* C20: when a named function statement is visited, its name is registered
\* in the symbol table of its parent scope; if and only if it has a namespace
\* statement among its ancestors, its flattened, namespace-qualified name is
\* also registered in the root symbol table, with the function type whose name
\* is the flattened name; without a namespace ancestor the visit adds no
\* function-typed entry to the root table.
C20_NamespacedFunctionRegistration ==
    [][(/\ pc = "walk" /\ idx <= Len(nodes)
        /\ nodes[idx].kind = "FunctionStatement"
        /\ IsDefined(nodes[idx].name))
       => LET f == idx
              name == Val(nodes[f].name)
              range == Some([node |-> f, member |-> 0, part |-> "name"])
          IN  /\ \E e \in symbolTables'[getSymbolTable(nodes[f].parent)] :
                     e.name = name /\ e.range = range
              /\ IF HasNamespaceAncestor(f)
                 THEN [name |-> FlattenedName(f), range |-> range,
                       type |-> [kind |-> "function", name |-> FlattenedName(f)]]
                          \in symbolTables'[1]
                 ELSE FunctionTypedSymbols(symbolTables'[1])
                          = FunctionTypedSymbols(symbolTables[1])
                      /\ \A e \in symbolTables'[1] \ symbolTables[1] : e.name = name
      ]_vars

\* a function in a while loop in namespace n.s has been visited: the root
\* table holds n_s_f
C20_Witness_FunctionBelowLoopInNamespace ==
    \E f \in 1..Len(nodes) :
        /\ nodes[f].kind = "FunctionStatement"
        /\ Visited(f)
        /\ nodes[nodes[f].parent].kind = "Block"
        /\ nodes[nodes[nodes[f].parent].parent].kind = "WhileStatement"
        /\ HasNamespaceAncestor(f)
        /\ \E e \in symbolTables[1] :
               e.name = <<"n", "_", "s", "_", "f">> /\ e.type.kind = "function"


\* --------------------------------------------------------------------- C19
\* C19: process() run twice on the same unmodified tree, the file's
\* diagnostics cleared between the runs, ends the second run with the same
\* diagnostics in the same order as the first, and with symbol tables that
\* hold the same bindings of names to range and type as after the first.
C19_Idempotent ==
    (run = 2 /\ pc \in {"done", "threw"})
    => /\ diagnostics = Val(firstRun).diagnostics
       /\ symbolTables = Val(firstRun).symbolTables
       /\ pc = Val(firstRun).pc

\* the second run has finished on a file with diagnostics from the top-level
\* check and the import check, and with symbols registered in the root table
C19_Witness_SecondRunDone ==
    /\ run = 2 /\ pc = "done"
    /\ \E k \in 1..Len(diagnostics) :
           diagnostics[k].message = "importStatementMustBeDeclaredAtTopOfFile"
    /\ \E k \in 1..Len(diagnostics) :
           diagnostics[k].message = "unexpectedStatementOutsideFunction"
    /\ symbolTables[1] # {}


\* --------------------------------------------------------------------- C21
\* the bindings of `m` in a table, names compared without case
BindingsOfM(table) == {e \in table : toLowerCase(e.name) = <<"m">>}

\* C21: once a function literal has been visited its symbol table has a
\* binding for `m`, and it still has one when the pass is over; the visit
\* injects the dynamic-typed `m` only when the table has no binding for `m`:
\* a table that already has one is left as it is by the visit.
C21_InjectionOfM ==
    /\ [](\A f \in 1..Len(nodes) :
             (nodes[f].kind = "FunctionExpression" /\ (Visited(f) \/ pc = "done"))
             => BindingsOfM(symbolTables[f]) # {})
    /\ [][(pc = "walk" /\ idx <= Len(nodes) /\ nodes[idx].kind = "FunctionExpression")
          => IF BindingsOfM(symbolTables[idx]) # {}
             THEN symbolTables' = symbolTables
             ELSE symbolTables'[idx] =
                      symbolTables[idx]
                          \cup {[name |-> <<"m">>, range |-> Undefined,
                                 type |-> [kind |-> "dynamic", name |-> << >>]]}
         ]_vars

\* the second run has visited the function literal of function f(M): its
\* table still binds M to the parameter, not to the injected `m`
C21_Witness_ParameterNamedM ==
    /\ run = 2
    /\ Len(nodes) = 5
    /\ nodes[3].kind = "FunctionExpression"
    /\ Visited(3)
    /\ idx = 4
    /\ BindingsOfM(symbolTables[3]) =
           {[name |-> <<"M">>, range |-> Some([node |-> 4, member |-> 0, part |-> "name"]),
             type |-> [kind |-> "dynamic", name |-> << >>]]}


\* --------------------------------------------------------------------- C22
\* the name a declaration is registered under: its name, or for a namespace
\* the first segment of its dotted name
RECURSIVE UpToFirstDot(_)
UpToFirstDot(text) ==
    IF text = << >> \/ Head(text) = "." THEN << >>
    ELSE <<Head(text)>> \o UpToFirstDot(Tail(text))

RegisteredName(d) ==
    IF nodes[d].kind = "NamespaceStatement" THEN UpToFirstDot(Val(nodes[d].name))
    ELSE Val(nodes[d].name)

\* member j of enum e is a plain literal that is not an integer
IsNonIntegerLiteral(e, j) ==
    LET value == nodes[e].members[j].value
    IN  /\ value # << >>
        /\ value[1].type = "LiteralExpression"
        /\ value[1].token # <<"IntegerLiteral">>

\* C22: a misplaced declaration, one that gets 'must be declared at namespace
\* level', is registered in the symbol table of its parent scope by the same
\* visit; and in every enum whose kind is integer, misplaced or not, every
\* member whose value is a non-integer literal has its 'enum value must be
\* type' diagnostic, also when that member or a member before it is flagged as
\* a duplicate identifier.
C22_ViolationsDoNotSuppressChecks ==
    /\ [](\A e \in 1..Len(nodes) :
             (nodes[e].kind = "EnumStatement" /\ Visited(e)
              /\ enumValueKinds[e] = <<"IntegerLiteral">>)
             => \A j \in 1..Len(nodes[e].members) :
                    IsNonIntegerLiteral(e, j)
                    => Count("enumValueMustBeType", e, j) = 1)
    /\ [][(/\ pc = "walk" /\ idx <= Len(nodes)
           /\ nodes[idx].kind \in DeclarationKinds
           /\ IsDefined(nodes[idx].name)
           /\ ~WellPlaced(idx))
          => /\ Len(diagnostics') > Len(diagnostics)
             /\ diagnostics'[Len(diagnostics) + 1].message
                    = "keywordMustBeDeclaredAtNamespaceLevel"
             /\ \E s \in symbolTables'[getSymbolTable(nodes[idx].parent)] :
                    s.name = RegisteredName(idx)
         ]_vars

\* enum E inside a sub, with a = 1, A = 1.5, b = "s", has been visited: it is
\* flagged as misplaced and registered, A is flagged as a duplicate, and both
\* A and b have their value flagged
C22_Witness_MisplacedEnumWithDuplicate ==
    \E e \in 1..Len(nodes) :
        /\ nodes[e].kind = "EnumStatement"
        /\ Visited(e)
        /\ Len(nodes[e].members) = 3
        /\ nodes[nodes[e].parent].kind = "Block"
        /\ Cardinality(NamespaceLevelDiagnostics(e)) = 1
        /\ Count("duplicateIdentifier", e, 2) = 1
        /\ Count("enumValueMustBeType", e, 2) = 1
        /\ Count("enumValueMustBeType", e, 3) = 1
        /\ \E s \in symbolTables[getSymbolTable(nodes[e].parent)] : s.name = <<"E">>


\* --------------------------------------------------------------------- C23
\* the nodes that register a name: enum, class, assignment, namespace,
\* function, function parameter, interface, const, dim, for-each, catch
NamedKinds ==
    {"EnumStatement", "ClassStatement", "AssignmentStatement", "NamespaceStatement",
     "FunctionStatement", "FunctionParameterExpression", "InterfaceStatement",
     "ConstStatement", "DimStatement", "ForEachStatement", "CatchStatement"}

\* the symbols, in any table, whose declaration range lies in node n
SymbolsDeclaredAt(n) ==
    UNION {{e \in symbolTables[t] : e.range # << >> /\ e.range[1].node = n} :
              t \in 1..Len(nodes)}

\* C23: a node that registers a name and whose name, item or exception
\* variable token is missing is skipped: its visit does not throw, it
\* registers no symbol for the node, and the only diagnostics at the node are
\* those of its placement, none on account of the missing name.
C23_MissingNamesAreSkipped ==
    \A n \in 1..Len(nodes) :
        (nodes[n].kind \in NamedKinds /\ nodes[n].name = << >>)
        => /\ ~(pc = "threw" /\ idx = n)
           /\ SymbolsDeclaredAt(n) = {}
           /\ \A k \in 1..Len(diagnostics) :
                  (diagnostics[k].range.node = n /\ diagnostics[k].range.member = 0)
                  => diagnostics[k].message \in {"keywordMustBeDeclaredAtNamespaceLevel",
                                                 "unexpectedStatementOutsideFunction"}


\* --------------------------------------------------------------------- C24
\* C24: no enum member has more than one 'enum value must be type'
\* diagnostic: the integer-kind / non-literal check and the non-integer-kind
\* mismatch check of validateEnumValueTypes never both fire for one member.
C24_AtMostOneTypeDiagnostic ==
    \A e \in 1..Len(nodes) :
        (nodes[e].kind = "EnumStatement" /\ Visited(e))
        => \A j \in 1..Len(nodes[e].members) :
               Count("enumValueMustBeType", e, j) <= 1


\* --------------------------------------------------------------------- C25
\* the phase of process() a diagnostic comes from: 1 the walk, 2 the
\* top-level check, 3 the library statements and 4 the import statements of
\* the top-of-file check
PhaseOf(d) ==
    CASE d.message = "unexpectedStatementOutsideFunction" -> 2
      [] d.message = "libraryStatementMustBeDeclaredAtTopOfFile" -> 3
      [] d.message = "importStatementMustBeDeclaredAtTopOfFile" -> 4
      [] OTHER -> 1

\* C25: in the diagnostics of one process() call every diagnostic of the
\* walk precedes every 'unexpected statement outside function', which
\* precedes every '... must be declared at top of file', and among these all
\* library-statement diagnostics precede all import-statement diagnostics.
C25_PhaseOrder ==
    \A i, j \in 1..Len(diagnostics) :
        i < j => PhaseOf(diagnostics[i]) <= PhaseOf(diagnostics[j])

\* print, import, library: the library statement is reported before the
\* import statement that precedes it in the file, both after the print
\* statement
C25_Witness_LibraryBeforeImport ==
    /\ pc = "done"
    /\ Len(nodes) = 4
    /\ nodes[3].kind = "ImportStatement"
    /\ nodes[4].kind = "LibraryStatement"
    /\ Len(diagnostics) = 3
    /\ diagnostics[1].message = "unexpectedStatementOutsideFunction"
    /\ diagnostics[2].message = "libraryStatementMustBeDeclaredAtTopOfFile"
    /\ diagnostics[2].range.node = 4
    /\ diagnostics[3].message = "importStatementMustBeDeclaredAtTopOfFile"
    /\ diagnostics[3].range.node = 3


\* --------------------------------------------------------------------- C26
IsPrefixOf(s, t) == Len(s) <= Len(t) /\ SubSeq(t, 1, Len(s)) = s

\* C26: process() only appends to the diagnostics of the file: every step
\* of it leaves the list it found as a prefix of the list it leaves, so the
\* diagnostic the file had before the call is still the first one, unchanged,
\* at every point of the call and after it.
C26_AppendOnly ==
    /\ [](Len(diagnostics) >= 1
          /\ diagnostics[1] = [message |-> "preexisting", arg |-> << >>,
                               range |-> [node |-> 0, member |-> 0, part |-> "range"]])
    /\ [][IsPrefixOf(diagnostics, diagnostics')]_vars

\* process() has finished on a file that had one diagnostic and has appended
\* diagnostics of the top-level check and of the top-of-file check
C26_Witness_AppendedAfterPreexisting ==
    /\ pc = "done"
    /\ Len(diagnostics) >= 3
    /\ diagnostics[1].message = "preexisting"
    /\ diagnostics[2].message = "unexpectedStatementOutsideFunction"
    /\ diagnostics[Len(diagnostics)].message = "importStatementMustBeDeclaredAtTopOfFile"


\* --------------------------------------------------------------------- C27
\* C27: the search for the loop of a continue statement does not stop at a
\* function literal: a visited continue statement inside a function literal
\* that is itself inside a loop, with no loop between the statement and the
\* function literal, has no 'illegal continue statement' diagnostic and is
\* compared with the loop outside of the function literal (one 'expected
\* token' diagnostic naming that loop when its loop-type token names another
\* kind of loop, none otherwise).
C27_ContinueCrossesFunctionBoundary ==
    \A c \in NodesOfKind("ContinueStatement") :
        (/\ Visited(c)
         /\ EnclosingFunction(c) # 0
         /\ EnclosingLoops(c) # << >>
         /\ EnclosingLoops(c)[1] < EnclosingFunction(c)) =>
            LET outer == EnclosingLoops(c)[1]
            IN  /\ Count("illegalContinueStatement", c, 0) = 0
                /\ Count("expectedToken", c, 0)
                      = (IF IsDefined(nodes[c].loopType) /\ Mismatch(c, outer)
                         THEN 1 ELSE 0)
                /\ \A k \in 1..Len(diagnostics) :
                      (diagnostics[k].message = "expectedToken"
                       /\ diagnostics[k].range.node = c)
                          => diagnostics[k].arg = LoopKeyword(outer)

\* C27 happens: `continue for` in a function inside a while loop, no loop in
\* the function, was matched against the while loop in a finished pass
C27_Witness_ContinueInFunctionInLoop ==
    /\ pc = "done"
    /\ Len(nodes) = 7
    /\ nodes[2].kind = "WhileStatement"
    /\ nodes[5].kind = "FunctionExpression"
    /\ nodes[7].kind = "ContinueStatement"
    /\ nodes[7].loopType = Some(<<"f", "o", "r">>)
    /\ Occurrences(Diagnostic("expectedToken", <<"W", "h", "i", "l", "e">>,
                               Range(7, 0, "loopType"))) = 1
    /\ Count("illegalContinueStatement", 7, 0) = 0


\* --------------------------------------------------------------------- C28
\* the walk is at a set statement whose object has the statement as parent
AtSetStatement ==
    /\ pc = "walk"
    /\ idx <= Len(nodes)
    /\ nodes[idx].kind \in SetStatementKinds
    /\ Obj(idx) # 0

\* the object of set statement s is a get expression with a safe-navigation
\* operator of its own
ObjIsSafe(s) ==
    /\ nodes[Obj(s)].kind \in {"DottedGetExpression", "IndexedGetExpression"}
    /\ \/ nodes[Obj(s)].dot = Some("QuestionDot")
       \/ nodes[Obj(s)].openingSquare = Some("QuestionLeftSquare")
       \/ nodes[Obj(s)].questionDotToken = Some("QuestionDot")

\* C28: the worklist loop of validateNoOptionalChainingInVarSet terminates for
\* every set statement whose object has the statement as its parent: the
\* visit of the statement returns, without an exception, and the walk goes on
\* to the next node, having examined the
\* object and then the statement and nothing else, so the statement has one
\* diagnostic for its object if that uses safe navigation and one for its own
\* separator if that does, at most two, all with the range of the whole
\* left-hand side.
C28_WorklistTerminates ==
    /\ [](\A s \in 1..Len(nodes) :
            (nodes[s].kind \in SetStatementKinds /\ Obj(s) # 0) =>
                /\ ~(pc = "threw" /\ idx = s)
                /\ Visited(s) =>
                      /\ Cardinality({k \in OptionalChainingDiagnostics :
                                         diagnostics[k].range.node = s})
                            = (IF ObjIsSafe(s) THEN 1 ELSE 0)
                              + (IF OwnSeparatorIsSafe(s) THEN 1 ELSE 0)
                      /\ \A k \in OptionalChainingDiagnostics :
                            diagnostics[k].range.node = s
                            => diagnostics[k].range = LeftHandSideRange(s))
    /\ [][AtSetStatement => (pc' = "walk" /\ idx' = idx + 1)]_vars

\* C28 happens: a?.b?.c = 1 was visited and has two identical diagnostics
C28_Witness_TwoIdenticalDiagnostics ==
    \E s \in 1..Len(nodes) :
        /\ nodes[s].kind = "DottedSetStatement"
        /\ Visited(s)
        /\ OwnSeparatorIsSafe(s)
        /\ nodes[Obj(s)].kind = "DottedGetExpression"
        /\ nodes[Obj(s)].dot = Some("QuestionDot")
        /\ nodes[Obj(Obj(s))].kind = "VariableExpression"
        /\ diagnostics
              = <<[message |-> "noOptionalChainingInLeftHandSideOfAssignment",
                   arg |-> << >>, range |-> LeftHandSideRange(s)],
                  [message |-> "noOptionalChainingInLeftHandSideOfAssignment",
                   arg |-> << >>, range |-> LeftHandSideRange(s)]>>


\* --------------------------------------------------------------------- C29
\* the walk has returned and flagTopLevelStatements is about to run
AtFlagTopLevelStatements == pc = "walk" /\ idx > Len(nodes)

\* C29: flagTopLevelStatements leaves the tree as it found it: after it, the
\* statement list of the root and the statement list of the body of every
\* namespace hold the same statements in the same order as before, no node
\* has changed, and no symbol table has changed.
C29_TreeUnchangedByTopLevelCheck ==
    [][AtFlagTopLevelStatements =>
          /\ pc' = "validateImportStatements"
          /\ Len(nodes') = Len(nodes)
          /\ RootStatements' = RootStatements
          /\ \A ns \in 1..Len(nodes) :
                nodes[ns].kind = "NamespaceStatement"
                => NamespaceBodyStatements(ns)' = NamespaceBodyStatements(ns)
          /\ nodes' = nodes
          /\ symbolTables' = symbolTables]_vars

\* C29 happens: the top-level check has run on a file with a statement at the
\* root and a namespace whose body has a statement that it flagged, and both
\* lists are still there
C29_Witness_ListsKeptAfterCheck ==
    /\ pc = "validateImportStatements"
    /\ Len(RootStatements) >= 2
    /\ \E ns \in 1..Len(nodes) :
          /\ nodes[ns].kind = "NamespaceStatement"
          /\ nodes[ns].parent = 1
          /\ \E b \in 1..Len(NamespaceBodyStatements(ns)) :
                /\ nodes[NamespaceBodyStatements(ns)[b]].kind = "PrintStatement"
                /\ Count("unexpectedStatementOutsideFunction",
                         NamespaceBodyStatements(ns)[b], 0) = 1


\* --------------------------------------------------------------------- C30
\* the places in the diagnostics list of the 'unexpected statement outside
\* function' diagnostics of statement n
UnexpectedStatementDiagnostics(n) ==
    {k \in 1..Len(diagnostics) :
        /\ diagnostics[k].message = "unexpectedStatementOutsideFunction"
        /\ diagnostics[k].range.node = n}

\* C30: the 'unexpected statement outside function' diagnostics are appended
\* in reverse source order: of two flagged statements, at the root or in
\* namespace bodies, the diagnostic of the one that comes later in the file
\* stands before the diagnostic of the one that comes earlier.
C30_ReverseSourceOrder ==
    \A s1, s2 \in 1..Len(nodes) :
        s1 < s2 =>
            \A k1 \in UnexpectedStatementDiagnostics(s1),
               k2 \in UnexpectedStatementDiagnostics(s2) : k2 < k1

\* C30 happens: a print statement in a namespace and a print statement at
\* the root after the namespace were flagged, the later one first
C30_Witness_LaterStatementFirst ==
    /\ TopLevelCheckDone
    /\ Len(nodes) = 5
    /\ nodes[2].kind = "NamespaceStatement" /\ nodes[2].parent = 1
    /\ nodes[4].kind = "PrintStatement" /\ nodes[4].parent = 3
    /\ nodes[5].kind = "PrintStatement" /\ nodes[5].parent = 1
    /\ Len(diagnostics) = 2
    /\ diagnostics[1].range.node = 5
    /\ diagnostics[2].range.node = 4

====
